---- MODULE Spec2Model ----
(***************************************************************************)
(* A model of the markdown-converter repository, centred on                *)
(* src/src/wordTemplateExporter.js (class WordTemplateExporter).           *)
(*                                                                         *)
(* Strings are sequences of atoms.  An atom is one character of text or    *)
(* one whole XML tag (a tag is never split by the code's regular           *)
(* expressions, which all match from '<' to the next '>').  A <w:pgSz/>    *)
(* element is an atom that carries its attribute values.                   *)
(***************************************************************************)
EXTENDS Integers, Sequences, FiniteSets, TLC

VARIABLES
    files,          \* the file system: path -> file
    templatePath,   \* this.templatePath
    startPage,      \* this.startPage
    pageSettings,   \* this.pageSettings (NoSettings models null)
    pc,             \* "idle" before convert() is called, "done" after it settled
    outcome,        \* how the promise returned by convert() settled
    locals,         \* the local variables of the convert() call and the stage it reached
    ioLog,          \* the file-system calls convert() made, in order
    patchTrace,     \* setPageSize applied repeatedly: <<xml, once, twice, ...>>
    scan,           \* a call of markdownToWordXml: its local variables and where it is
    consumed,       \* the iterations of its loop so far: rule, lines taken, text appended
    calls,          \* the calls of convert() made so far when several are in flight
    initialFiles,   \* the file system before the first of them
    forwarded,      \* preload.js: the calls of ipcRenderer.send and ipcRenderer.invoke, in order
    listeners,      \* preload.js: the listeners registered on ipcRenderer
    result,         \* preload.js: the latest call on window.electronAPI and what it returned
    tabs,           \* renderer.js: this.tabs of the TabManager, tab id -> tab
    activeTabId,    \* this.activeTabId
    nextTabId,      \* this.nextTabId
    autoSaveInterval, \* this.autoSaveInterval is set
    recentFiles,    \* this.recentFiles
    editors,        \* the textareas of the page: tab id -> editor.value
    timeouts,       \* the callbacks of openFile's setTimeout that have not run yet
    sent,           \* the messages the latest handler sent with ipcRenderer.send
    currentFile,    \* the path of the latest 'set-current-file' message
    usedIds,        \* every tab id used so far
    lastOp          \* the latest handler that ran, and the one before it

\* The exporter, in the main process.
exporterVars ==
    <<files, templatePath, startPage, pageSettings, pc, outcome, locals, ioLog, patchTrace,
      scan, consumed, calls, initialFiles>>

\* The bridge of preload.js, in the window.
bridgeVars == <<forwarded, listeners, result>>

\* The TabManager of renderer.js and its page.
rendererVars ==
    <<tabs, activeTabId, nextTabId, autoSaveInterval, recentFiles, editors, timeouts, sent,
      currentFile, usedIds, lastOp>>

windowVars == <<bridgeVars, rendererVars>>

vars == <<exporterVars, windowVars>>

\* No window is open.
NoCall == [n |-> 0, method |-> "", channel |-> "", returned |-> ""]

NoPath == "null"

NoOp == [op |-> "", before |-> "", afterInput |-> FALSE]

NoBridge ==
    /\ forwarded = <<>>
    /\ listeners = {}
    /\ result = NoCall

NoRenderer ==
    /\ tabs = <<>>
    /\ activeTabId = 0
    /\ nextTabId = 0
    /\ autoSaveInterval = FALSE
    /\ recentFiles = <<>>
    /\ editors = <<>>
    /\ timeouts = <<>>
    /\ sent = <<>>
    /\ currentFile = NoPath
    /\ usedIds = {}
    /\ lastOp = NoOp

NoWindow == NoBridge /\ NoRenderer

(***************************************************************************)
(* Bounds of the model.                                                    *)
(***************************************************************************)
MaxSections == 2    \* intermediate (paragraph-level) section breaks in a template
MaxPage == 4        \* startPage ranges over 1..MaxPage
MaxApply == 2       \* how many times setPageSize is applied in SpecPageSize

(***************************************************************************)
(* Atoms and strings.                                                      *)
(***************************************************************************)
T(s) == [k |-> s, w |-> 0, h |-> 0, o |-> ""]

PgSz(width, height, orient) == [k |-> "<w:pgSz/>", w |-> width, h |-> height, o |-> orient]

\* "GRAVE" names the one character U+0060 (the grave accent that delimits inline
\* code), which a string literal of this language cannot hold.
Str(chars) == [i \in DOMAIN chars |-> T(chars[i])]

\* The sequences ss[lo], ..., ss[hi] one after the other, by halves.
RECURSIVE FlattenRange(_, _, _)
FlattenRange(ss, lo, hi) ==
    IF lo > hi THEN <<>>
    ELSE IF lo = hi THEN ss[lo]
    ELSE FlattenRange(ss, lo, (lo + hi) \div 2) \o FlattenRange(ss, (lo + hi) \div 2 + 1, hi)

Flatten(ss) == FlattenRange(ss, 1, Len(ss))

Min(S) == CHOOSE x \in S : \A y \in S : x <= y

\* String.prototype.indexOf on atoms: 0-based index of the first atom a, or -1.
IndexOfFrom(s, a, i) ==
    LET found == { j \in i..Len(s) : s[j] = a }
    IN  IF found = {} THEN -1 ELSE Min(found) - 1

IndexOf(s, a) == IndexOfFrom(s, a, 1)

\* String.prototype.slice(from, to) with 0 <= from, to (0-based, end exclusive).
Slice(s, from, to) == SubSeq(s, from + 1, to)

SliceFrom(s, from) == SubSeq(s, from + 1, Len(s))

(***************************************************************************)
(* Template documents (the text of word/document.xml).                     *)
(***************************************************************************)
SectPrOpenTags == {T("<w:sectPr>"), T("<w:sectPr w:rsidR=\"00A1\">")}

SectPrClose == T("</w:sectPr>")

BodyOpen == T("<w:body>")

BodyClose == T("</w:body>")

\* The page size a template carries before any patch (US Letter, no w:orient).
TemplatePgSz == PgSz(12240, 15840, "")

Flavors == {"plain", "sized"}

FinalFlavors == {"none", "plain", "sized"}

SectPrXml(flavor) ==
    IF flavor = "plain"
    THEN <<T("<w:sectPr>"), SectPrClose>>
    ELSE <<T("<w:sectPr w:rsidR=\"00A1\">"), TemplatePgSz, SectPrClose>>

ContentParagraph(text) ==
    <<T("<w:p>"), T("<w:r>"), T("<w:t>"), T(text), T("</w:t>"), T("</w:r>"), T("</w:p>")>>

\* A section break that is not the last one lives in a paragraph's properties.
SectionBreakParagraph(flavor) ==
    <<T("<w:p>"), T("<w:pPr>")>> \o SectPrXml(flavor) \o <<T("</w:pPr>"), T("</w:p>")>>

PageText == <<"A", "B", "C", "D", "E">>

TemplateXml(flavors, final) ==
    <<T("<w:document>"), BodyOpen>>
    \o Flatten([i \in 1..Len(flavors) |->
                    ContentParagraph(PageText[i]) \o SectionBreakParagraph(flavors[i])])
    \o ContentParagraph(PageText[Len(flavors) + 1])
    \o (IF final = "none" THEN <<>> ELSE SectPrXml(final))
    \o <<BodyClose, T("</w:document>")>>

TemplateDocs ==
    { TemplateXml(fl, fin) :
        fl \in UNION { [1..n -> Flavors] : n \in 0..MaxSections },
        fin \in FinalFlavors }

(***************************************************************************)
(* setPageSize (lines 59-104).                                             *)
(***************************************************************************)
PAGE_SIZES ==
    [ a4      |-> [width |-> 11906, height |-> 16838],
      a3      |-> [width |-> 16838, height |-> 23811],
      a5      |-> [width |-> 8391,  height |-> 11906],
      b4      |-> [width |-> 14170, height |-> 20015],
      b5      |-> [width |-> 9979,  height |-> 14170],
      letter  |-> [width |-> 12240, height |-> 15840],
      legal   |-> [width |-> 12240, height |-> 20160],
      tabloid |-> [width |-> 15840, height |-> 24480] ]

\* The values of the page-size <select> of the export dialog; "custom" is not a
\* key of PAGE_SIZES.
SizeKeys == DOMAIN PAGE_SIZES \cup {"custom"}

Orientations == {"portrait", "landscape"}

NoSettings == [size |-> "null", orientation |-> "null"]

AllPageSettings == [size : SizeKeys, orientation : Orientations]

\* The settings an exporter is constructed with in Spec: none, or one of two sizes.
ExporterPageSettings ==
    {NoSettings} \cup [size : {"a4", "letter"}, orientation : Orientations]

\* /<w:pgSz[^>]*\/>/
IsPgSz(a) == a.k = "<w:pgSz/>"

\* /<w:sectPr[^>]*>/
IsSectPrOpen(a) == a \in SectPrOpenTags

\* pgSzRegex.test(xml)
HasPgSz(xml) == \E i \in DOMAIN xml : IsPgSz(xml[i])

PageDimensions_NoSwap ==
    IF pageSettings.size \in DOMAIN PAGE_SIZES
    THEN <<PAGE_SIZES[pageSettings.size].width, PAGE_SIZES[pageSettings.size].height>>
    ELSE <<11906, 16838>>

\* lines 72-87: the [width, height] pair written into the document
PageDimensions ==
    LET known == pageSettings.size \in DOMAIN PAGE_SIZES
        width == IF known THEN PAGE_SIZES[pageSettings.size].width ELSE 11906
        height == IF known THEN PAGE_SIZES[pageSettings.size].height ELSE 16838
    IN  IF pageSettings.orientation = "landscape"
        THEN <<height, width>>
        ELSE <<width, height>>

NewPgSz == PgSz(PageDimensions[1], PageDimensions[2], pageSettings.orientation)

\* xml.replace(pgSzRegex, () => newPgSz)
ReplacePgSz(xml) == [i \in DOMAIN xml |-> IF IsPgSz(xml[i]) THEN NewPgSz ELSE xml[i]]

\* xml.replace(sectPrRegex, (match) => match + newPgSz)
AddPgSz(xml) ==
    Flatten([i \in DOMAIN xml |->
                IF IsSectPrOpen(xml[i]) THEN <<xml[i], NewPgSz>> ELSE <<xml[i]>>])

setPageSize_AddAlways(documentXml) == AddPgSz(ReplacePgSz(documentXml))

setPageSize(documentXml) ==
    LET modifiedXml == ReplacePgSz(documentXml)
    IN  IF ~HasPgSz(documentXml) THEN AddPgSz(modifiedXml) ELSE modifiedXml

(***************************************************************************)
(* insertContentAfterPage (lines 112-136).                                 *)
(***************************************************************************)
\* The first index j >= i with xml[j] = </w:sectPr>, or 0.
NextSectPrClose(xml, i) ==
    LET closes == { j \in i..Len(xml) : xml[j] = SectPrClose }
    IN  IF closes = {} THEN 0 ELSE Min(closes)

\* [...xml.matchAll(/<w:sectPr[^>]*>[\s\S]*?<\/w:sectPr>/g)] from atom i on:
\* each match is [index |-> 0-based start, length |-> atoms matched].  A match
\* starts at the first opening tag that has a closing tag after it, and the
\* search goes on after the match.
RECURSIVE MatchAllFrom(_, _)
MatchAllFrom(xml, i) ==
    LET starts == { k \in i..Len(xml) :
                      IsSectPrOpen(xml[k]) /\ NextSectPrClose(xml, k + 1) # 0 }
    IN  IF starts = {} THEN <<>>
        ELSE LET j == NextSectPrClose(xml, Min(starts) + 1)
             IN  <<[index |-> Min(starts) - 1, length |-> j - Min(starts) + 1]>>
                 \o MatchAllFrom(xml, j + 1)

SectionBreakMatches(xml) == MatchAllFrom(xml, 1)

\* GetSubstitution of String.prototype.replace(string, string): the replacement
\* text is scanned for $-patterns.  There are no captures, so $1..$99 and $<
\* stay as written.  The scan goes from left to right and a pattern takes two
\* characters, so in a run of '$' the first, third, ... one is read as the start
\* of a pattern and the one after it as its second character.
DollarPatterns == {T("$"), T("&"), T("GRAVE"), T("'")}

\* The '$' at position i is read as the start of a pattern.
StartsPattern(replacement, i) ==
    /\ replacement[i] = T("$")
    /\ (i - Min({ p \in 1..i : \A k \in p..i : replacement[k] = T("$") })) % 2 = 0

\* The character at position i is the second character of a pattern.
EndsPattern(replacement, i) ==
    /\ i > 1
    /\ replacement[i] \in DollarPatterns
    /\ StartsPattern(replacement, i - 1)

GetSubstitution(replacement, matched, before, after) ==
    Flatten([i \in DOMAIN replacement |->
        IF EndsPattern(replacement, i) THEN <<>>
        ELSE IF StartsPattern(replacement, i) /\ i < Len(replacement)
        THEN (IF replacement[i + 1] = T("&") THEN matched
              ELSE IF replacement[i + 1] = T("GRAVE") THEN before
              ELSE IF replacement[i + 1] = T("'") THEN after
              ELSE <<T("$")>>)
        ELSE <<replacement[i]>>])

\* xml.replace(pattern, replacement) for a single-atom string pattern: the first
\* occurrence only, xml unchanged when there is none.
ReplaceFirst(xml, pattern, replacement) ==
    LET at == IndexOf(xml, pattern)
    IN  IF at = -1 THEN xml
        ELSE LET before == Slice(xml, 0, at)
                 after == SliceFrom(xml, at + 1)
             IN  before \o GetSubstitution(replacement, <<pattern>>, before, after) \o after

insertContentAfterPage_OffByOne(documentXml, newContentXml, afterPage) ==
    LET matches == SectionBreakMatches(documentXml)
        sectionIndex == afterPage - 1
    IN  IF Len(matches) >= sectionIndex /\ sectionIndex > 0
        THEN LET insertPoint == matches[sectionIndex].index
             IN  Slice(documentXml, 0, insertPoint) \o newContentXml
                    \o SliceFrom(documentXml, insertPoint)
        ELSE IF afterPage = 1 \/ Len(matches) = 0
        THEN LET bodyStart == IndexOf(documentXml, BodyOpen) + 1
             IN  Slice(documentXml, 0, bodyStart) \o newContentXml
                    \o SliceFrom(documentXml, bodyStart)
        ELSE ReplaceFirst(documentXml, BodyClose, newContentXml \o <<BodyClose>>)

\* JS matches[sectionIndex - 1] is matches[sectionIndex] here (sequences start
\* at 1).  '<w:body>' is 8 characters and one atom, so indexOf(...) + 8 is the
\* atom index plus one.
insertContentAfterPage(documentXml, newContentXml, afterPage) ==
    LET matches == SectionBreakMatches(documentXml)
        sectionIndex == afterPage - 1
    IN  IF Len(matches) >= sectionIndex /\ sectionIndex > 0
        THEN LET insertPoint == matches[sectionIndex].index + matches[sectionIndex].length
             IN  Slice(documentXml, 0, insertPoint) \o newContentXml
                    \o SliceFrom(documentXml, insertPoint)
        ELSE IF afterPage = 1 \/ Len(matches) = 0
        THEN LET bodyStart == IndexOf(documentXml, BodyOpen) + 1
             IN  Slice(documentXml, 0, bodyStart) \o newContentXml
                    \o SliceFrom(documentXml, bodyStart)
        ELSE ReplaceFirst(documentXml, BodyClose, newContentXml \o <<BodyClose>>)

(***************************************************************************)
(* Markdown to Word XML (lines 141-247, 267-276, 656-740).                 *)
(***************************************************************************)
ReplaceAllChar(text, c, entity) ==
    IF text = <<>> THEN <<>>
    ELSE Flatten([n \in DOMAIN text |-> IF text[n] = T(c) THEN Str(entity) ELSE <<text[n]>>])

\* Five global replaces, '&' first.
escapeXml(text) ==
    LET amp == ReplaceAllChar(text, "&", <<"&", "a", "m", "p", ";">>)
        lt == ReplaceAllChar(amp, "<", <<"&", "l", "t", ";">>)
        gt == ReplaceAllChar(lt, ">", <<"&", "g", "t", ";">>)
        quot == ReplaceAllChar(gt, "\"", <<"&", "q", "u", "o", "t", ";">>)
    IN  ReplaceAllChar(quot, "'", <<"&", "a", "p", "o", "s", ";">>)

createRunXml_Raw(text, bold, italic, code) ==
    IF text = <<>> THEN <<>>
    ELSE <<T("<w:r>"), T("<w:rPr>"), T("</w:rPr>"), T("<w:t xml:space=\"preserve\">")>>
         \o text \o <<T("</w:t>"), T("</w:r>")>>

createRunXml(text, bold, italic, code) ==
    IF text = <<>> THEN <<>>
    ELSE <<T("<w:r>"), T("<w:rPr>")>>
         \o (IF bold THEN <<T("<w:b/>")>> ELSE <<>>)
         \o (IF italic THEN <<T("<w:i/>")>> ELSE <<>>)
         \o (IF code
             THEN <<T("<w:rFonts w:ascii=\"Consolas\" w:hAnsi=\"Consolas\"/>"),
                    T("<w:sz w:val=\"20\"/>")>>
             ELSE <<>>)
         \o <<T("</w:rPr>"), T("<w:t xml:space=\"preserve\">")>>
         \o escapeXml(text)
         \o <<T("</w:t>"), T("</w:r>")>>

StartsWithAt(text, i, d) ==
    /\ i + Len(d) - 1 <= Len(text)
    /\ SubSeq(text, i, i + Len(d) - 1) = d

\* regex.exec(text) for /D(.+?)D/ with delimiter D: the leftmost start, then the
\* nearest closing delimiter with at least one character in between.
ExecDelimited(text, d) ==
    LET closes(i) == { j \in (i + Len(d) + 1)..Len(text) : StartsWithAt(text, j, d) }
        starts == { i \in 1..Len(text) : StartsWithAt(text, i, d) /\ closes(i) # {} }
    IN  IF starts = {} THEN [found |-> FALSE, index |-> 0, length |-> 0, group |-> <<>>]
        ELSE LET i == Min(starts)
                 j == Min(closes(i))
             IN  [found |-> TRUE, index |-> i - 1, length |-> j + Len(d) - i,
                  group |-> SubSeq(text, i + Len(d), j - 1)]

InlinePatterns ==
    << [delim |-> Str(<<"*", "*", "*">>), bold |-> TRUE, italic |-> TRUE, code |-> FALSE],
       [delim |-> Str(<<"*", "*">>), bold |-> TRUE, italic |-> FALSE, code |-> FALSE],
       [delim |-> Str(<<"*">>), bold |-> FALSE, italic |-> TRUE, code |-> FALSE],
       [delim |-> Str(<<"GRAVE">>), bold |-> FALSE, italic |-> FALSE, code |-> TRUE] >>

\* The first pattern of the list that matches at all.
RECURSIVE EarliestPattern_ListOrder(_, _, _, _)
EarliestPattern_ListOrder(remaining, n, best, earliestPos) ==
    IF n > Len(InlinePatterns) THEN best
    ELSE IF ExecDelimited(remaining, InlinePatterns[n].delim).found THEN n
    ELSE EarliestPattern_ListOrder(remaining, n + 1, best, earliestPos)

\* The for loop of lines 678-687: the first pattern, in list order, whose match
\* starts strictly before every earlier pattern's match; 0 when none matches.
RECURSIVE EarliestPattern(_, _, _, _)
EarliestPattern(remaining, n, best, earliestPos) ==
    IF n > Len(InlinePatterns) THEN best
    ELSE LET m == ExecDelimited(remaining, InlinePatterns[n].delim)
         IN  IF m.found /\ m.index < earliestPos
             THEN EarliestPattern(remaining, n + 1, n, m.index)
             ELSE EarliestPattern(remaining, n + 1, best, earliestPos)

\* One iteration of the while loop of lines 669-704 for a non-empty remaining:
\* the text appended to xml, the value of remaining after it, and whether the
\* iteration left the loop by the break of line 702.
InlineStep(remaining) ==
    LET n == EarliestPattern(remaining, 1, 0, Len(remaining))
    IN  IF n = 0
        THEN [xml |-> createRunXml(remaining, FALSE, FALSE, FALSE),
              remaining |-> remaining, break |-> TRUE]
        ELSE LET pat == InlinePatterns[n]
                 m == ExecDelimited(remaining, pat.delim)
             IN  [xml |-> createRunXml(Slice(remaining, 0, m.index), FALSE, FALSE, FALSE)
                          \o createRunXml(m.group, pat.bold, pat.italic, pat.code),
                  remaining |-> SliceFrom(remaining, m.index + m.length),
                  break |-> FALSE]

RECURSIVE parseInlineFormatting(_)

\* The rest of the while loop after one iteration: it ends at the break of
\* line 702 and when remaining is empty (line 671).
InlineRest(step) ==
    step.xml \o (IF step.break THEN <<>> ELSE parseInlineFormatting(step.remaining))

parseInlineFormatting(text) ==
    IF text = <<>> THEN <<>>
    ELSE InlineRest(InlineStep(text))

(***************************************************************************)
(* Strings of one line: trim, split, join, and the regular expressions of  *)
(* the classifier.                                                         *)
(***************************************************************************)
\* The white space a line can hold once the text is split at '\n'.
Whitespace == {" ", "\t", "\r"}

Digits == {"0", "1", "2", "3", "4", "5", "6", "7", "8", "9"}

Upper ==
    {"A", "B", "C", "D", "E", "F", "G", "H", "I", "J", "K", "L", "M",
     "N", "O", "P", "Q", "R", "S", "T", "U", "V", "W", "X", "Y", "Z"}

Lower ==
    {"a", "b", "c", "d", "e", "f", "g", "h", "i", "j", "k", "l", "m",
     "n", "o", "p", "q", "r", "s", "t", "u", "v", "w", "x", "y", "z"}

\* \w
Word == Upper \cup Lower \cup Digits \cup {"_"}

IsWs(a) == a.k \in Whitespace

RECURSIVE TrimStart(_)
TrimStart(s) == IF s # <<>> /\ IsWs(Head(s)) THEN TrimStart(Tail(s)) ELSE s

RECURSIVE TrimEnd(_)
TrimEnd(s) ==
    IF s # <<>> /\ IsWs(s[Len(s)]) THEN TrimEnd(SubSeq(s, 1, Len(s) - 1)) ELSE s

\* String.prototype.trim
Trim(s) == TrimEnd(TrimStart(s))

\* s.startsWith(prefix), s.endsWith(c), s.includes(c)
StartsWith(s, prefix) == StartsWithAt(s, 1, Str(prefix))

EndsWith(s, c) == s # <<>> /\ s[Len(s)] = T(c)

Includes(s, c) == \E n \in DOMAIN s : s[n] = T(c)

\* s.split(c) for a one-character separator: always at least one piece.
RECURSIVE Split(_, _)
Split(s, c) ==
    LET at == IndexOf(s, T(c))
    IN  IF at = -1 THEN <<s>>
        ELSE <<Slice(s, 0, at)>> \o Split(SliceFrom(s, at + 1), c)

\* pieces.join('\n')
RECURSIVE Join(_)
Join(pieces) ==
    IF pieces = <<>> THEN <<>>
    ELSE IF Len(pieces) = 1 THEN pieces[1]
    ELSE pieces[1] \o <<T("\n")>> \o Join(Tail(pieces))

\* A regular expression anchored at the start of the line is a sequence of
\* items: a character class (or its complement) repeated exactly min times, or
\* min times or more.  MatchEnds is the set of positions at which some match of
\* the first items can end; test() asks whether there is any.
Item(cls, neg, min, more) == [cls |-> cls, neg |-> neg, min |-> min, more |-> more]

One(c) == Item({c}, FALSE, 1, FALSE)

In(cls) == Item(cls, FALSE, 1, FALSE)

Rep(cls, min) == Item(cls, FALSE, min, TRUE)

RepNot(cls, min) == Item(cls, TRUE, min, TRUE)

InClass(a, item) == (a.k \in item.cls) # item.neg

\* The first position from p on whose character the item does not accept.
RECURSIVE RunEnd(_, _, _)
RunEnd(item, line, p) ==
    IF p <= Len(line) /\ InClass(line[p], item) THEN RunEnd(item, line, p + 1) ELSE p

\* The positions at which a match of the item that starts at p can end.
ItemEnds(item, line, p) ==
    IF item.more THEN (p + item.min)..RunEnd(item, line, p)
    ELSE IF item.min = 1 /\ p <= Len(line) /\ InClass(line[p], item) THEN {p + 1}
    ELSE {}

RECURSIVE MatchEnds(_, _, _, _)
MatchEnds(items, k, line, from) ==
    IF k > Len(items) \/ from = {} THEN from
    ELSE MatchEnds(items, k + 1, line, UNION { ItemEnds(items[k], line, p) : p \in from })

\* regex.test(line); toEnd says that the expression ends with '$'.
Test(items, toEnd, line) ==
    LET ends == MatchEnds(items, 1, line, {1})
    IN  IF toEnd THEN (Len(line) + 1) \in ends ELSE ends # {}

(***************************************************************************)
(* isAsciiArt (lines 498-541).                                             *)
(***************************************************************************)
\* The characters of lines 509-517, named by their code points.
asciiArtChars ==
    { "U+2500", "U+2502", "U+250C", "U+2510", "U+2514", "U+2518", "U+251C", "U+2524",
      "U+252C", "U+2534", "U+253C",
      "U+2550", "U+2551", "U+2554", "U+2557", "U+255A", "U+255D", "U+2560", "U+2563",
      "U+2566", "U+2569", "U+256C",
      "U+256D", "U+256E", "U+256F", "U+2570",
      "U+25B2", "U+25BC", "U+25C4", "U+25BA", "U+2666", "U+25CF", "U+25CB", "U+25A0",
      "U+25A1", "U+25C6", "U+25C7",
      "U+2193", "U+2192", "U+2190", "U+2191", "U+2194", "U+2195", "U+21D2", "U+21D0",
      "U+21D3", "U+21D1",
      "U+2503", "U+2501", "U+250F", "U+2513", "U+2517", "U+251B", "U+2523", "U+252B",
      "U+2533", "U+253B", "U+254B",
      "U+2591", "U+2592", "U+2593", "U+2588" }

Pattern(items, toEnd) == [items |-> items, toEnd |-> toEnd]

\* Lines 525-538, in the order of the source.
asciiPatterns ==
    << Pattern(<<Rep(Whitespace, 0), One("+"), Rep({"-", "=", "_", "+"}, 1), One("+")>>, FALSE),
       Pattern(<<Rep(Whitespace, 0), One("|"), Rep({"-", "=", "_"}, 3), One("|")>>, FALSE),
       Pattern(<<Rep(Whitespace, 0), Rep({"-", "=", "_"}, 5)>>, TRUE),
       Pattern(<<Rep(Whitespace, 0), One("+"), Rep({"-"}, 1), One("+"), Rep({"-"}, 1),
                 One("+")>>, FALSE),
       Pattern(<<Rep(Whitespace, 0), One("("), In(Upper), Rep(Lower, 1), One(")"),
                 Rep(Whitespace, 0), One("|"), One("|")>>, FALSE),
       Pattern(<<Rep(Whitespace, 0), One("|"), Rep(Whitespace, 1), Rep(Upper \cup Whitespace, 1),
                 In({"-", ":"}), Rep(Whitespace, 1), In(Upper)>>, FALSE),
       Pattern(<<Rep(Whitespace, 0), One("|"), Rep(Whitespace, 0), One("["), RepNot({"]"}, 1),
                 One("]")>>, FALSE),
       Pattern(<<Rep(Whitespace, 0), One("|"), Rep(Whitespace, 2), Rep(Word, 1),
                 RepNot({"\r"}, 0), One("|"), One("|")>>, FALSE),
       Pattern(<<Rep(Whitespace, 0), One("["), RepNot({"]"}, 1), One("]"),
                 Rep(Whitespace, 0)>>, TRUE),
       Pattern(<<Rep(Whitespace, 0), One("<"), Rep({"-", "="}, 1), One(">")>>, FALSE),
       Pattern(<<Rep(Whitespace, 0), One("/"), Rep({"-", "_", "\\", "/"}, 1), One("/")>>, FALSE),
       Pattern(<<Rep(Whitespace, 0), One("*"), Rep({"-", "=", "*"}, 1), One("*")>>, FALSE) >>

\* line.split('|').filter(cell => cell.trim())
NonBlankCells(line) == SelectSeq(Split(line, "|"), LAMBDA cell : Trim(cell) # <<>>)

isAsciiArt(line) ==
    IF /\ StartsWith(Trim(line), <<"|">>)
       /\ EndsWith(Trim(line), "|")
       /\ Len(NonBlankCells(line)) >= 2
    THEN FALSE
    ELSE \/ \E n \in DOMAIN line : line[n].k \in asciiArtChars
         \/ \E n \in DOMAIN asciiPatterns :
                Test(asciiPatterns[n].items, asciiPatterns[n].toEnd, line)

\* The template literal keeps the source's line breaks and indentation between
\* the tags: T("\n") stands for one such run of white space.
createParagraphXml(text) ==
    <<T("<w:p>"), T("\n"), T("<w:pPr>"), T("\n"), T("<w:pStyle w:val=\"Normal\"/>"),
      T("\n"), T("</w:pPr>"), T("\n")>>
    \o parseInlineFormatting(text)
    \o <<T("\n"), T("</w:p>")>>

\* lines 252-262
createHeadingXml(text, level) ==
    <<T("<w:p>"), T("\n"), T("<w:pPr>"), T("\n"),
      T("<w:pStyle w:val=\"Heading" \o ToString(level) \o "\"/>"),
      T("\n"), T("</w:pPr>"), T("\n")>>
    \o parseInlineFormatting(text)
    \o <<T("\n"), T("</w:p>")>>

\* lines 281-290
createQuoteXml(text) ==
    <<T("<w:p>"), T("\n"), T("<w:pPr>"), T("\n"), T("<w:pStyle w:val=\"Quote\"/>"),
      T("\n"), T("</w:pPr>"), T("\n")>>
    \o parseInlineFormatting(text)
    \o <<T("\n"), T("</w:p>")>>

\* lines 295-309
createListItemXml(text, numbered) ==
    <<T("<w:p>"), T("\n"), T("<w:pPr>"), T("\n"),
      T(IF numbered THEN "<w:pStyle w:val=\"ListNumber\"/>"
                    ELSE "<w:pStyle w:val=\"ListBullet\"/>"),
      T("\n"), T("<w:numPr>"), T("\n"), T("<w:ilvl w:val=\"0\"/>"), T("\n"),
      T(IF numbered THEN "<w:numId w:val=\"1\"/>" ELSE "<w:numId w:val=\"2\"/>"),
      T("\n"), T("</w:numPr>"), T("\n"), T("</w:pPr>"), T("\n")>>
    \o parseInlineFormatting(text)
    \o <<T("\n"), T("</w:p>")>>

\* The paragraph properties of lines 326-334 and of lines 555-563: shading,
\* spacing before the first line and after the last one, no wrapping.
ShadedParagraphProps(index, count) ==
    <<T("<w:pPr>"), T("\n"), T("<w:pStyle w:val=\"Normal\"/>"), T("\n"),
      T("<w:shd w:val=\"clear\" w:color=\"auto\" w:fill=\"F5F5F5\"/>"), T("\n"),
      T("<w:spacing w:before=\"" \o (IF index = 0 THEN "120" ELSE "0")
            \o "\" w:after=\"" \o (IF index = count - 1 THEN "120" ELSE "0")
            \o "\" w:line=\"240\" w:lineRule=\"exact\"/>"), T("\n"),
      T("<w:ind w:left=\"284\" w:right=\"284\"/>"), T("\n"),
      T("<w:jc w:val=\"left\"/>"), T("\n"), T("<w:keepLines/>"), T("\n"),
      T("<w:wordWrap w:val=\"0\"/>"), T("\n"), T("</w:pPr>")>>

\* The Consolas runs of lines 335-343 (size 18) and 592-644 (size 16, red for
\* an arrow); text is escaped by the caller.
MonoRunXml(escapedText, size, red) ==
    <<T("<w:r>"), T("\n"), T("<w:rPr>"), T("\n"),
      T("<w:rFonts w:ascii=\"Consolas\" w:hAnsi=\"Consolas\" w:cs=\"Consolas\"/>"), T("\n"),
      T("<w:sz w:val=\"" \o size \o "\"/>"), T("\n"),
      T("<w:szCs w:val=\"" \o size \o "\"/>"), T("\n")>>
    \o (IF red THEN <<T("<w:color w:val=\"FF0000\"/>"), T("\n")>> ELSE <<>>)
    \o <<T("<w:noProof/>"), T("\n"), T("</w:rPr>"), T("\n"), T("<w:t xml:space=\"preserve\">")>>
    \o escapedText
    \o <<T("</w:t>"), T("\n"), T("</w:r>")>>

\* lines 316-348: one paragraph for each piece of code.split('\n')
createCodeBlockXml(code) ==
    LET lines == Split(code, "\n")
    IN  Flatten([n \in DOMAIN lines |->
            <<T("<w:p>"), T("\n")>> \o ShadedParagraphProps(n - 1, Len(lines)) \o <<T("\n")>>
            \o MonoRunXml(escapeXml(lines[n]), "18", FALSE)
            \o <<T("\n"), T("</w:p>")>>])

\* lines 353-361
createHorizontalRuleXml ==
    <<T("<w:p>"), T("\n"), T("<w:pPr>"), T("\n"), T("<w:pBdr>"), T("\n"),
      T("<w:bottom w:val=\"single\" w:sz=\"6\" w:space=\"1\" w:color=\"auto\"/>"), T("\n"),
      T("</w:pBdr>"), T("\n"), T("</w:pPr>"), T("\n"), T("</w:p>")>>

\* line 566
arrowChars ==
    {"U+2193", "U+2192", "U+2190", "U+2191", "U+25BC", "U+25BA", "U+25C4", "U+25B2"}

\* lines 579-586: the index (from 1) of the first arrow of the text, 0 when none
FirstArrow(text) ==
    LET at == { n \in DOMAIN text : text[n].k \in arrowChars }
    IN  IF at = {} THEN 0 ELSE Min(at)

ArrowRuns_FirstOnly(remainingLine) ==
    (IF FirstArrow(remainingLine) > 1
     THEN MonoRunXml(escapeXml(SubSeq(remainingLine, 1, FirstArrow(remainingLine) - 1)),
                     "16", FALSE)
     ELSE <<>>)
    \o MonoRunXml(escapeXml(<<remainingLine[FirstArrow(remainingLine)]>>), "16", TRUE)
    \o (IF FirstArrow(remainingLine) < Len(remainingLine)
        THEN MonoRunXml(escapeXml(SubSeq(remainingLine, FirstArrow(remainingLine) + 1,
                                         Len(remainingLine))), "16", FALSE)
        ELSE <<>>)

\* One iteration of the while loop of lines 572-632 for a non-empty
\* remainingLine: the runs appended and the value of remainingLine after it.
ArrowStep(remainingLine) ==
    LET arrowAt == FirstArrow(remainingLine)
    IN  IF arrowAt = 0
        THEN [xml |-> MonoRunXml(escapeXml(remainingLine), "16", FALSE), remainingLine |-> <<>>]
        ELSE [xml |-> (IF arrowAt > 1
                       THEN MonoRunXml(escapeXml(SubSeq(remainingLine, 1, arrowAt - 1)),
                                       "16", FALSE)
                       ELSE <<>>)
                      \o MonoRunXml(escapeXml(<<remainingLine[arrowAt]>>), "16", TRUE),
              remainingLine |-> SubSeq(remainingLine, arrowAt + 1, Len(remainingLine))]


\* lines 569-632: the runs of a line that holds an arrow
RECURSIVE ArrowRuns(_)
ArrowRuns(remainingLine) ==
    IF remainingLine = <<>> THEN <<>>
    ELSE LET step == ArrowStep(remainingLine)
         IN  step.xml \o ArrowRuns(step.remainingLine)

\* lines 547-651
createAsciiArtXml(asciiContent) ==
    LET lines == Split(asciiContent, "\n")
    IN  Flatten([n \in DOMAIN lines |->
            <<T("<w:p>"), T("\n")>> \o ShadedParagraphProps(n - 1, Len(lines))
            \o (IF FirstArrow(lines[n]) # 0
                THEN ArrowRuns(lines[n])
                ELSE MonoRunXml(escapeXml(lines[n]), "16", FALSE))
            \o <<T("</w:p>")>>])

(***************************************************************************)
(* createTableXml (lines 367-493).                                         *)
(***************************************************************************)
\* line 372: /^\s*\|[\s\-:]+\|\s*$/
separatorPattern ==
    Pattern(<<Rep(Whitespace, 0), One("|"), Rep(Whitespace \cup {"-", ":"}, 1), One("|"),
              Rep(Whitespace, 0)>>, TRUE)

IsSeparatorLine(line) == Test(separatorPattern.items, separatorPattern.toEnd, line)

TableCells_KeepBlank(line) == [n \in DOMAIN Split(line, "|") |-> Trim(Split(line, "|")[n])]

\* line 376: line.split('|').filter(cell => cell.trim()).map(cell => cell.trim())
TableCells(line) == [n \in DOMAIN NonBlankCells(line) |-> Trim(NonBlankCells(line)[n])]

\* lines 369-380: the rows of the table, a row being its cells
RECURSIVE TableRows(_)
TableRows(tableLines) ==
    IF tableLines = <<>> THEN <<>>
    ELSE (IF IsSeparatorLine(Head(tableLines)) \/ TableCells(Head(tableLines)) = <<>>
          THEN <<>>
          ELSE <<TableCells(Head(tableLines))>>)
         \o TableRows(Tail(tableLines))

Max(S) == CHOOSE x \in S : \A y \in S : x >= y

\* lines 396-409
TableProperties ==
    <<T("<w:tblPr>"), T("\n"), T("<w:tblStyle w:val=\"TableGrid\"/>"), T("\n"),
      T("<w:tblW w:w=\"0\" w:type=\"auto\"/>"), T("\n"),
      T("<w:tblLayout w:type=\"fixed\"/>"), T("\n"),
      T("<w:tblLook w:val=\"04A0\" w:firstRow=\"1\" w:lastRow=\"0\" w:firstColumn=\"0\" w:lastColumn=\"0\" w:noHBand=\"0\" w:noVBand=\"1\"/>"),
      T("\n"), T("<w:tblBorders>"), T("\n"),
      T("<w:top w:val=\"single\" w:sz=\"8\" w:space=\"0\" w:color=\"F58220\"/>"), T("\n"),
      T("<w:left w:val=\"single\" w:sz=\"8\" w:space=\"0\" w:color=\"F58220\"/>"), T("\n"),
      T("<w:bottom w:val=\"single\" w:sz=\"8\" w:space=\"0\" w:color=\"F58220\"/>"), T("\n"),
      T("<w:right w:val=\"single\" w:sz=\"8\" w:space=\"0\" w:color=\"F58220\"/>"), T("\n"),
      T("<w:insideH w:val=\"single\" w:sz=\"8\" w:space=\"0\" w:color=\"F58220\"/>"), T("\n"),
      T("<w:insideV w:val=\"single\" w:sz=\"8\" w:space=\"0\" w:color=\"F58220\"/>"), T("\n"),
      T("</w:tblBorders>"), T("\n"), T("</w:tblPr>")>>

\* lines 433-462
CellProperties(colWidth, isHeader) ==
    <<T("<w:tcPr>"),
      T("<w:tcW w:w=\"" \o ToString(colWidth) \o "\" w:type=\"dxa\"/>"),
      T(IF isHeader THEN "<w:shd w:val=\"clear\" w:color=\"auto\" w:fill=\"F58220\"/>"
                    ELSE "<w:shd w:val=\"clear\" w:color=\"auto\" w:fill=\"FFFFFF\"/>"),
      T("<w:tcBorders>"),
      T("<w:top w:val=\"single\" w:sz=\"8\" w:space=\"0\" w:color=\"F58220\"/>"),
      T("<w:left w:val=\"single\" w:sz=\"8\" w:space=\"0\" w:color=\"F58220\"/>"),
      T("<w:bottom w:val=\"single\" w:sz=\"8\" w:space=\"0\" w:color=\"F58220\"/>"),
      T("<w:right w:val=\"single\" w:sz=\"8\" w:space=\"0\" w:color=\"F58220\"/>"),
      T("</w:tcBorders>"),
      T("<w:tcMar>"),
      T("<w:top w:w=\"80\" w:type=\"dxa\"/>"), T("<w:left w:w=\"120\" w:type=\"dxa\"/>"),
      T("<w:bottom w:w=\"80\" w:type=\"dxa\"/>"), T("<w:right w:w=\"120\" w:type=\"dxa\"/>"),
      T("</w:tcMar>"),
      T("</w:tcPr>")>>

\* line 474: runs.replace(/<w:rPr>/g, '<w:rPr><w:b/><w:color w:val="FFFFFF"/>')
HeaderRuns(runs) ==
    Flatten([n \in DOMAIN runs |->
                IF runs[n] = T("<w:rPr>")
                THEN <<T("<w:rPr>"), T("<w:b/>"), T("<w:color w:val=\"FFFFFF\"/>")>>
                ELSE <<runs[n]>>])

\* lines 432-482
TableCellXml(cellText, colWidth, isHeader) ==
    <<T("<w:tc>")>> \o CellProperties(colWidth, isHeader)
    \o <<T("<w:p>"), T("<w:pPr>"),
         T("<w:spacing w:before=\"0\" w:after=\"0\" w:line=\"240\" w:lineRule=\"auto\"/>"),
         T("</w:pPr>")>>
    \o (IF isHeader THEN HeaderRuns(parseInlineFormatting(cellText))
                    ELSE parseInlineFormatting(cellText))
    \o <<T("</w:p>"), T("</w:tc>")>>

PadRow_NoPadding(rowCells, numCols) == rowCells

\* lines 427-430: while (rowCells.length < numCols) rowCells.push('')
PadRow(rowCells, numCols) ==
    rowCells \o [n \in 1..(numCols - Len(rowCells)) |-> <<>>]

\* lines 419-485
TableRowXml(rowCells, numCols, colWidth, isHeader) ==
    <<T("<w:tr>"), T("<w:trPr>"), T("<w:trHeight w:val=\"0\" w:hRule=\"atLeast\"/>"),
      T("</w:trPr>")>>
    \o Flatten([n \in 1..Len(PadRow(rowCells, numCols)) |->
                    TableCellXml(PadRow(rowCells, numCols)[n], colWidth, isHeader)])
    \o <<T("</w:tr>")>>

\* lines 384-493, for a table that has a row
TableXml(rows, numCols, colWidth) ==
    <<T("<w:tbl>")>> \o TableProperties
    \o <<T("<w:tblGrid>")>>
    \o [n \in 1..numCols |-> T("<w:gridCol w:w=\"" \o ToString(colWidth) \o "\"/>")]
    \o <<T("</w:tblGrid>")>>
    \o Flatten([r \in DOMAIN rows |-> TableRowXml(rows[r], numCols, colWidth, r = 1)])
    \o <<T("</w:tbl>"),
         T("<w:p>"), T("<w:pPr>"), T("<w:spacing w:before=\"120\" w:after=\"0\"/>"),
         T("</w:pPr>"), T("</w:p>")>>

WidestRow(rows) == Max({ Len(rows[r]) : r \in DOMAIN rows })

createTableXml(tableLines) ==
    IF TableRows(tableLines) = <<>> THEN <<>>
    ELSE TableXml(TableRows(tableLines), WidestRow(TableRows(tableLines)),
                  9360 \div WidestRow(TableRows(tableLines)))

(***************************************************************************)
(* markdownToWordXml (lines 141-247).                                      *)
(***************************************************************************)
\* The first position from p on whose character is not in cls.
RECURSIVE SkipClass(_, _, _)
SkipClass(s, p, cls) ==
    IF p <= Len(s) /\ s[p].k \in cls THEN SkipClass(s, p + 1, cls) ELSE p

\* s.replace(regex, '') for an expression whose items are greedy and whose
\* neighbouring classes are disjoint: the longest match is the one removed.
RemoveMatch(items, s) ==
    IF MatchEnds(items, 1, s, {1}) = {} THEN s
    ELSE SubSeq(s, Max(MatchEnds(items, 1, s, {1})), Len(s))

\* line 207: (line.match(/^#+/) || [''])[0].length
HeadingLevel(line) == SkipClass(line, 1, {"#"}) - 1

\* line 208: line.replace(/^#+\s*/, '').trim()
HeadingText(line) == Trim(RemoveMatch(<<Rep({"#"}, 1), Rep(Whitespace, 0)>>, line))

\* (\.\d+)* from position p on
RECURSIVE DottedEnd(_, _)
DottedEnd(text, p) ==
    IF p + 1 <= Len(text) /\ text[p] = T(".") /\ text[p + 1].k \in Digits
    THEN DottedEnd(text, SkipClass(text, p + 1, Digits))
    ELSE p

StripNumbering_OneNumber(text) ==
    RemoveMatch(<<Rep(Digits, 1), Rep({"."}, 0), Rep(Whitespace, 1)>>, text)

\* line 210: text.replace(/^\d+(\.\d+)*\.?\s+/, '').  Every quantifier is greedy
\* and giving back a character never helps: what follows the digits of a group
\* is no digit, and what follows a dot that was given back is a digit or the
\* dot itself, never white space.
StripNumbering(text) ==
    LET digitsEnd == SkipClass(text, 1, Digits)
        groupsEnd == DottedEnd(text, digitsEnd)
        dotEnd == IF groupsEnd <= Len(text) /\ text[groupsEnd] = T(".")
                  THEN groupsEnd + 1 ELSE groupsEnd
        spaceEnd == SkipClass(text, dotEnd, Whitespace)
    IN  IF digitsEnd > 1 /\ spaceEnd > dotEnd THEN SubSeq(text, spaceEnd, Len(text)) ELSE text

\* line 217: line.replace(/^>\s*/, '').trim()
QuoteText(line) == Trim(RemoveMatch(<<One(">"), Rep(Whitespace, 0)>>, line))

\* line 223: /^\s*\d+\.\s+/
orderedPattern == <<Rep(Whitespace, 0), Rep(Digits, 1), One("."), Rep(Whitespace, 1)>>

\* line 230: /^\s*[-*+]\s+/
unorderedPattern == <<Rep(Whitespace, 0), In({"-", "*", "+"}), Rep(Whitespace, 1)>>

\* line 237: /^[-*_]{3,}$/
rulePattern == <<Rep({"-", "*", "_"}, 3)>>

IsBlank(line) == Trim(line) = <<>>

IsFence(line) == StartsWith(Trim(line), <<"GRAVE", "GRAVE", "GRAVE">>)

\* line 175
IsTableStart(line) == Includes(line, "|") /\ StartsWith(Trim(line), <<"|">>)

TableEnd_Stay(lines, i) == i - 1

RECURSIVE TableEnd_NoBackUp(_, _)
TableEnd_NoBackUp(lines, i) ==
    IF i < Len(lines) /\ Includes(lines[i + 1], "|") THEN TableEnd_NoBackUp(lines, i + 1)
    ELSE IF i < Len(lines) THEN i + 1
    ELSE i

\* lines 179-183: the index (from 0) at which the table loop stops, from i on
RECURSIVE TableEnd(_, _)
TableEnd(lines, i) ==
    IF i < Len(lines) /\ Includes(lines[i + 1], "|") THEN TableEnd(lines, i + 1) ELSE i

\* lines 193-200: the index (from 0) at which the ASCII-art loop stops, from i
\* on.  The break of lines 196-198 leaves the loop where its condition would.
RECURSIVE AsciiArtEnd(_, _)
AsciiArtEnd(lines, i) ==
    IF i < Len(lines) /\ (isAsciiArt(lines[i + 1]) \/ IsBlank(lines[i + 1]))
    THEN AsciiArtEnd(lines, i + 1)
    ELSE i

RuleOf_RuleFirst(lines, i, inCodeBlock) ==
    LET line == lines[i + 1]
    IN  IF IsFence(line) THEN "fence"
        ELSE IF inCodeBlock THEN "code"
        ELSE IF IsBlank(line) THEN "empty"
        ELSE IF IsTableStart(line) THEN "table"
        ELSE IF Test(rulePattern, TRUE, Trim(line)) THEN "rule"
        ELSE IF isAsciiArt(line) THEN "asciiArt"
        ELSE IF StartsWith(Trim(line), <<"#">>) THEN "heading"
        ELSE IF StartsWith(Trim(line), <<">">>) THEN "quote"
        ELSE IF Test(orderedPattern, FALSE, line) THEN "ordered"
        ELSE IF Test(unorderedPattern, FALSE, line) THEN "unordered"
        ELSE "paragraph"

\* The branch of the loop body that line i (from 0) takes.
RuleOf(lines, i, inCodeBlock) ==
    LET line == lines[i + 1]
    IN  IF IsFence(line) THEN "fence"
        ELSE IF inCodeBlock THEN "code"
        ELSE IF IsBlank(line) THEN "empty"
        ELSE IF IsTableStart(line) THEN "table"
        ELSE IF isAsciiArt(line) THEN "asciiArt"
        ELSE IF StartsWith(Trim(line), <<"#">>) THEN "heading"
        ELSE IF StartsWith(Trim(line), <<">">>) THEN "quote"
        ELSE IF Test(orderedPattern, FALSE, line) THEN "ordered"
        ELSE IF Test(unorderedPattern, FALSE, line) THEN "unordered"
        ELSE IF Test(rulePattern, TRUE, Trim(line)) THEN "rule"
        ELSE "paragraph"

\* One iteration of the loop: the value of i at the next test of the loop
\* condition, the new inCodeBlock and codeLines, and the text appended to xml.
Iteration(next, inCodeBlock, codeLines, xml) ==
    [i |-> next, inCodeBlock |-> inCodeBlock, codeLines |-> codeLines, xml |-> xml]

LoopBody(rule, lines, i, inCodeBlock, codeLines) ==
    LET line == lines[i + 1]
    IN  CASE rule = "fence" ->
                IF inCodeBlock
                THEN Iteration(i + 1, FALSE, <<>>, createCodeBlockXml(Join(codeLines)))
                ELSE Iteration(i + 1, TRUE, codeLines, <<>>)
          [] rule = "code" ->
                Iteration(i + 1, inCodeBlock, Append(codeLines, line), <<>>)
          [] rule = "empty" ->
                Iteration(i + 1, inCodeBlock, codeLines,
                          <<T("<w:p>"), T("<w:pPr>"), T("</w:pPr>"), T("</w:p>")>>)
          [] rule = "table" ->
                Iteration(TableEnd(lines, i + 1), inCodeBlock, codeLines,
                          createTableXml(SubSeq(lines, i + 1, TableEnd(lines, i + 1))))
          [] rule = "asciiArt" ->
                Iteration(AsciiArtEnd(lines, i + 1), inCodeBlock, codeLines,
                          createAsciiArtXml(Join(SubSeq(lines, i + 1, AsciiArtEnd(lines, i + 1)))))
          [] rule = "heading" ->
                Iteration(i + 1, inCodeBlock, codeLines,
                          createHeadingXml(StripNumbering(HeadingText(line)), HeadingLevel(line)))
          [] rule = "quote" ->
                Iteration(i + 1, inCodeBlock, codeLines, createQuoteXml(QuoteText(line)))
          [] rule = "ordered" ->
                Iteration(i + 1, inCodeBlock, codeLines,
                          createListItemXml(RemoveMatch(orderedPattern, line), TRUE))
          [] rule = "unordered" ->
                Iteration(i + 1, inCodeBlock, codeLines,
                          createListItemXml(RemoveMatch(unorderedPattern, line), FALSE))
          [] rule = "rule" ->
                Iteration(i + 1, inCodeBlock, codeLines, createHorizontalRuleXml)
          [] OTHER ->
                Iteration(i + 1, inCodeBlock, codeLines, createParagraphXml(line))

\* The rest of the loop after an iteration, then line 246: return xml.
RECURSIVE LoopFrom(_, _)
LoopFrom(lines, it) ==
    it.xml \o
    (IF it.i >= Len(lines) THEN <<>>
     ELSE LoopFrom(lines, LoopBody(RuleOf(lines, it.i, it.inCodeBlock), lines, it.i,
                                   it.inCodeBlock, it.codeLines)))

\* lines is markdown.split('\n'), which has at least one element.
markdownToWordXml(lines) == LoopFrom(lines, Iteration(0, FALSE, <<>>, <<>>))

\* The local variables of a call of markdownToWordXml; pc is "loop" while the
\* call is in the for loop and "returned" after line 246.
Scan(pos, lines, i, inCodeBlock, codeLines, xml) ==
    [pc |-> pos, lines |-> lines, i |-> i, inCodeBlock |-> inCodeBlock,
     codeLines |-> codeLines, xml |-> xml]

NoScan == Scan("none", <<>>, 0, FALSE, <<>>, <<>>)

\* Markdown texts, already split at '\n' as line 142 does.
MarkdownSamples ==
    { <<Str(<<"a">>)>>,
      <<Str(<<"$", "$">>)>>,
      <<Str(<<"$", "&">>)>>,
      <<Str(<<"$", "GRAVE">>)>>,
      <<Str(<<"$", "'">>)>>,
      <<Str(<<"a", "<">>), <<>>>> }

(***************************************************************************)
(* Files, archives and errors.                                             *)
(***************************************************************************)
\* A file is absent, holds bytes that are no zip archive ("garbage"), or is a
\* .docx archive; xml is the text of its word/document.xml entry when it has one.
File(kind, hasDocument, xml) == [kind |-> kind, hasDocument |-> hasDocument, xml |-> xml]

Absent == File("absent", FALSE, <<>>)

Garbage == File("garbage", FALSE, <<>>)

Docx(xml) == File("docx", TRUE, xml)

TemplateFiles ==
    {Absent, Garbage, File("docx", FALSE, <<>>)} \cup { Docx(xml) : xml \in TemplateDocs }

\* What outputPath holds before the export: nothing, or an earlier export.
OutputFiles == {Absent, Docx(<<T("<w:document>"), T("</w:document>")>>)}

DefaultTemplatePath == "word_template.docx"

OutputPaths == {"out.docx"}

Paths == {DefaultTemplatePath} \cup OutputPaths

\* The values thrown: Node's fs errors carry code, syscall and path; PizZip's
\* error and a TypeError carry only a message.
Err(name, code, syscall, path, message) ==
    [name |-> name, code |-> code, syscall |-> syscall, path |-> path, message |-> message]

NoError == Err("", "", "", "", "")

ZipError == Err("Error", "", "", "", "Can't find end of central directory")

NullEntryError == Err("TypeError", "", "", "", "Cannot read properties of null (reading 'asText')")

NotAStringError == Err("TypeError", "", "", "", "Cannot read properties of null (reading 'split')")

\* What the environment can do to a call: nothing, refuse the read of an
\* existing template, refuse the write, or run out of space during the write.
Faults == {"none", "read:EACCES", "write:EACCES", "write:ENOSPC"}

\* The markdownContent argument: a string (its lines), or null.
MarkdownInputs ==
    {[isString |-> FALSE, lines |-> <<>>]}
    \cup { [isString |-> TRUE, lines |-> m] : m \in MarkdownSamples }

(***************************************************************************)
(* convert (lines 22-54).                                                  *)
(***************************************************************************)
Run(stage, error, template, documentXml, newContentXml, modifiedXml) ==
    [stage |-> stage, error |-> error, template |-> template, documentXml |-> documentXml,
     newContentXml |-> newContentXml, modifiedXml |-> modifiedXml]

NotRun == Run("none", NoError, <<>>, <<>>, <<>>, <<>>)

\* Lines 46-47: serialize the archive and write it.
WriteStage(template, documentXml, newContentXml, modifiedXml, outputPath, fault) ==
    IF fault = "write:EACCES"
    THEN Run("write", Err("Error", "EACCES", "open", outputPath, ""),
             template, documentXml, newContentXml, modifiedXml)
    ELSE IF fault = "write:ENOSPC"
    THEN Run("write", Err("Error", "ENOSPC", "write", outputPath, ""),
             template, documentXml, newContentXml, modifiedXml)
    ELSE Run("done", NoError, template, documentXml, newContentXml, modifiedXml)

\* Lines 40-43: splice the new content into the document.
SpliceStage(template, documentXml, newContentXml, outputPath, fault) ==
    WriteStage(template, documentXml, newContentXml,
               insertContentAfterPage(documentXml, newContentXml, startPage),
               outputPath, fault)

\* Line 37: markdownContent.split throws when markdownContent is no string.
EmitStage(template, documentXml, markdownContent, outputPath, fault) ==
    IF ~markdownContent.isString
    THEN Run("emit", NotAStringError, template, documentXml, <<>>, <<>>)
    ELSE SpliceStage(template, documentXml, markdownToWordXml(markdownContent.lines),
                     outputPath, fault)

PatchStage_Always(template, markdownContent, outputPath, fault) ==
    EmitStage(template, setPageSize(template), markdownContent, outputPath, fault)

\* Lines 32-34: the page size is set only when the exporter has page settings.
PatchStage(template, markdownContent, outputPath, fault) ==
    EmitStage(template,
              IF pageSettings # NoSettings THEN setPageSize(template) ELSE template,
              markdownContent, outputPath, fault)

LoadedTemplate_Cached ==
    IF \E c \in DOMAIN calls : calls[c].run.stage = "done"
    THEN Docx(calls[Max({ c \in DOMAIN calls : calls[c].run.stage = "done" })].run.modifiedXml)
    ELSE files[templatePath]

\* Line 25: every call reads the template file anew.
LoadedTemplate == files[templatePath]

\* The try block for a template file: the stage the call reached ("done", or the
\* stage that threw), the error thrown and the values of the local variables.
\* Lines 25-29 load the template: readFileSync, new PizZip,
\* zip.file(...).asText().
ConvertRunOn(file, markdownContent, outputPath, fault) ==
    IF file.kind = "absent"
    THEN Run("read", Err("Error", "ENOENT", "open", templatePath, ""), <<>>, <<>>, <<>>, <<>>)
    ELSE IF fault = "read:EACCES"
    THEN Run("read", Err("Error", "EACCES", "open", templatePath, ""), <<>>, <<>>, <<>>, <<>>)
    ELSE IF file.kind # "docx"
    THEN Run("unzip", ZipError, <<>>, <<>>, <<>>, <<>>)
    ELSE IF ~file.hasDocument
    THEN Run("entry", NullEntryError, <<>>, <<>>, <<>>, <<>>)
    ELSE PatchStage(file.xml, markdownContent, outputPath, fault)

ConvertRun(markdownContent, outputPath, fault) ==
    ConvertRunOn(LoadedTemplate, markdownContent, outputPath, fault)

\* The calls made on fs: readFileSync always, writeFileSync when line 47 is reached.
IoCalls(run, outputPath) ==
    <<[op |-> "readFileSync", path |-> templatePath]>>
    \o (IF run.stage \in {"write", "done"}
        THEN <<[op |-> "writeFileSync", path |-> outputPath]>>
        ELSE <<>>)

FilesAfter_OpenFirst(run, outputPath) ==
    IF run.stage = "done" THEN [files EXCEPT ![outputPath] = Docx(run.modifiedXml)]
    ELSE [files EXCEPT ![outputPath] = Garbage]

\* The file system after the call: writeFileSync replaces the file; a write that
\* runs out of space leaves a truncated file; a refused open leaves it alone.
FilesAfter(run, outputPath) ==
    IF run.stage = "done" THEN [files EXCEPT ![outputPath] = Docx(run.modifiedXml)]
    ELSE IF run.stage = "write" /\ run.error.code = "ENOSPC"
    THEN [files EXCEPT ![outputPath] = Garbage]
    ELSE files

Pending == [status |-> "pending", value |-> "", error |-> NoError]

convert(markdownContent, outputPath, fault) ==
    /\ pc = "idle"
    /\ \E run \in {ConvertRun(markdownContent, outputPath, fault)} :
           /\ locals' = run
           /\ ioLog' = ioLog \o IoCalls(run, outputPath)
           /\ files' = FilesAfter(run, outputPath)
           /\ outcome' = IF run.stage = "done"
                         THEN [status |-> "resolved", value |-> outputPath, error |-> NoError]
                         ELSE [status |-> "rejected", value |-> "", error |-> run.error]
    /\ pc' = "done"
    /\ UNCHANGED <<templatePath, startPage, pageSettings, patchTrace, scan, consumed, calls,
                   initialFiles, windowVars>>

\* new WordTemplateExporter(templatePath, startPage, pageSettings), lines 13-17,
\* over a file system that holds the template and, possibly, an earlier export.
Init ==
    /\ templatePath = DefaultTemplatePath
    /\ startPage \in 1..MaxPage
    /\ pageSettings \in ExporterPageSettings
    /\ \E t \in TemplateFiles, o \in OutputFiles :
            files = [p \in Paths |-> IF p = DefaultTemplatePath THEN t ELSE o]
    /\ pc = "idle"
    /\ outcome = Pending
    /\ locals = NotRun
    /\ ioLog = <<>>
    /\ patchTrace = <<>>
    /\ scan = NoScan
    /\ consumed = <<>>
    /\ calls = <<>>
    /\ initialFiles = files
    /\ NoWindow

Next ==
    \E markdownContent \in MarkdownInputs, outputPath \in OutputPaths, fault \in Faults :
        convert(markdownContent, outputPath, fault)

Spec == Init /\ [][Next]_vars

(***************************************************************************)
(* setPageSize as a function of the document and the settings: applied     *)
(* again and again to its own result.                                      *)
(***************************************************************************)
InitPageSize ==
    /\ templatePath = DefaultTemplatePath
    /\ startPage = 3
    /\ pageSettings \in AllPageSettings
    /\ files = [p \in Paths |-> Absent]
    /\ pc = "idle"
    /\ outcome = Pending
    /\ locals = NotRun
    /\ ioLog = <<>>
    /\ \E xml \in TemplateDocs : patchTrace = <<xml>>
    /\ scan = NoScan
    /\ consumed = <<>>
    /\ calls = <<>>
    /\ initialFiles = files
    /\ NoWindow

ApplySetPageSize ==
    /\ Len(patchTrace) <= MaxApply
    /\ patchTrace' = Append(patchTrace, setPageSize(patchTrace[Len(patchTrace)]))
    /\ UNCHANGED <<files, templatePath, startPage, pageSettings, pc, outcome, locals, ioLog,
                   scan, consumed, calls, initialFiles, windowVars>>

NextPageSize == ApplySetPageSize

SpecPageSize == InitPageSize /\ [][NextPageSize]_vars

(***************************************************************************)
(* Markdown texts for markdownToWordXml, each already split at '\n'.       *)
(***************************************************************************)
MaxLines == 3       \* lines of a text made of the lines of LinePool
MaxCodeLines == 3   \* lines between the fences of a code block
MaxRows == 3        \* rows of a table
MaxCols == 3        \* cells of a table row
MaxHashes == 7      \* '#' characters at the start of a heading line
MaxArrowLine == 3   \* characters of an ASCII-art line with arrows
MaxRuleLen == 6     \* characters of a line of one repeated character

SeqsUpTo(S, n) == UNION { [1..m -> S] : m \in 0..n }

Fence == Str(<<"GRAVE", "GRAVE", "GRAVE">>)

\* Lines that the fence, empty-line, table, ASCII-art, heading and paragraph
\* branches take, two of them with a '|' that only the table loop reacts to.
LinePool ==
    { Fence,
      <<>>,
      Str(<<"|", "a", "|", "b", "|">>),
      Str(<<"|", "-", "-", "-", "-", "-", "|">>),
      Str(<<"+", "-", "-", "+">>),
      Str(<<"a", "|", "b">>),
      Str(<<"#", " ", "a">>) }

ScanDocs == SeqsUpTo(LinePool, MaxLines) \ {<<>>}

\* One line for each of the branches that take a single line.
AllRulesDoc ==
    << Str(<<">", " ", "q">>), Str(<<"1", ".", " ", "x">>), Str(<<"-", " ", "x">>),
       Str(<<"-", "-", "-">>), Str(<<"U+250C", "U+2500", "U+2192">>), Str(<<"a">>) >>

CodePool ==
    { <<>>, Str(<<"#", " ", "a">>), Str(<<"|", "a", "|", "b", "|">>), Str(<<"-", " ", "x">>),
      Str(<<"a", "<", "b">>) }

\* A code block opened by a fence with a language, then closed, closed and
\* followed by a paragraph, or left open.
CodeDocs ==
    { <<Fence \o Str(<<"j", "s">>)>> \o body \o tail :
        body \in SeqsUpTo(CodePool, MaxCodeLines),
        tail \in {<<>>, <<Fence>>, <<Fence, Str(<<"z">>)>>} }

Letters == <<"a", "b", "c", "d", "e", "f">>

\* cells.join(' | ') between '| ' and ' |'
PipeRow(cells) ==
    Str(<<"|", " ">>)
    \o Flatten([n \in DOMAIN cells |->
                    cells[n] \o (IF n < Len(cells) THEN Str(<<" ", "|", " ">>) ELSE <<>>)])
    \o Str(<<" ", "|">>)

Dashes(n) == [m \in 1..n |-> T("-")]

\* renderer.js, generateMarkdownTable: the lines of the text it returns
generateMarkdownTable(rows, cols, hasHeader, alignment) ==
    LET alignChar == IF alignment = "center" THEN Str(<<":">>) \o Dashes(10) \o Str(<<":">>)
                     ELSE IF alignment = "right" THEN Dashes(10) \o Str(<<":">>)
                     ELSE Dashes(10)
        header == PipeRow([c \in 1..cols |->
                              Str(<<"H", "e", "a", "d", "e", "r", " ">>) \o <<T(ToString(c))>>])
        separator == PipeRow([c \in 1..cols |-> alignChar])
        data(r) == PipeRow([c \in 1..cols |->
                              Str(<<"C", "e", "l", "l", " ">>)
                              \o <<T(ToString(r)), T(","), T(ToString(c))>>])
    IN  IF hasHeader
        THEN <<header, separator>> \o [r \in 1..(rows - 1) |-> data(r)] \o << <<>> >>
        ELSE <<data(1), separator>> \o [r \in 1..(rows - 1) |-> data(r + 1)] \o << <<>> >>

\* renderer.js, TabManager.insertTable: the lines of the text it inserts
insertTable ==
    << <<>>,
       Str(<<"|", " ", "C", "o", "l", "u", "m", "n", " ", "1", " ",
             "|", " ", "C", "o", "l", "u", "m", "n", " ", "2", " ",
             "|", " ", "C", "o", "l", "u", "m", "n", " ", "3", " ", "|">>),
       Str(<<"|">>) \o Dashes(10) \o Str(<<"|">>) \o Dashes(10) \o Str(<<"|">>) \o Dashes(10)
            \o Str(<<"|">>),
       Str(<<"|", " ", "C", "e", "l", "l", " ", "1", " ", " ", " ",
             "|", " ", "C", "e", "l", "l", " ", "2", " ", " ", " ",
             "|", " ", "C", "e", "l", "l", " ", "3", " ", " ", " ", "|">>),
       Str(<<"|", " ", "C", "e", "l", "l", " ", "4", " ", " ", " ",
             "|", " ", "C", "e", "l", "l", " ", "5", " ", " ", " ",
             "|", " ", "C", "e", "l", "l", " ", "6", " ", " ", " ", "|">>),
       <<>> >>

EditorTables ==
    {insertTable}
    \cup { generateMarkdownTable(rows, cols, hasHeader, alignment) :
            rows \in 1..MaxRows, cols \in 1..MaxCols, hasHeader \in BOOLEAN,
            alignment \in {"left", "center", "right"} }

\* A hand-written table: a header row, a separator row with as many columns,
\* and data rows of any width; the cell of column c holds the c-th letter.
RaggedRow(width) == PipeRow([c \in 1..width |-> <<T(Letters[c])>>])

RaggedTables ==
    { <<RaggedRow(widths[1]), PipeRow([c \in 1..widths[1] |-> Dashes(3)])>>
        \o [r \in 1..(Len(widths) - 1) |-> RaggedRow(widths[r + 1])] :
        widths \in SeqsUpTo(1..MaxCols, MaxRows) \ {<<>>} }

\* '**a** and *b* and `c`' and its like: a bold, an italic and a code span
\* with plain text in between.
SpanTexts == {Str(<<"a">>), Str(<<"x", "y">>)}

Gaps == {Str(<<" ", "a", "n", "d", " ">>), Str(<<",">>)}

InlineLine(b, g1, i, g2, c) ==
    Str(<<"*", "*">>) \o b \o Str(<<"*", "*">>) \o g1
    \o Str(<<"*">>) \o i \o Str(<<"*">>) \o g2
    \o Str(<<"GRAVE">>) \o c \o Str(<<"GRAVE">>)

InlineDocs ==
    { <<InlineLine(b, g1, i, g2, c)>> :
        b \in SpanTexts, g1 \in Gaps, i \in SpanTexts, g2 \in Gaps, c \in SpanTexts }
    \cup { <<Str(<<"*", "*", "*", "x", "*", "*", "*", " ", "y">>)>>,
           <<Str(<<"a", " ", "*", "b">>)>>,
           <<Str(<<"GRAVE", "c", "GRAVE", "*", "i", "*">>)>> }

\* Heading lines: optional leading space, the '#' characters, an optional
\* space, an optional numbering prefix and a title.
Numberings ==
    { <<>>, Str(<<"2", " ">>), Str(<<"2", ".", " ">>), Str(<<"2", ".", "1", " ">>),
      Str(<<"2", ".", "1", ".", " ">>), Str(<<"2", ".", "1", ".", "3", " ">>),
      Str(<<"1", "0", ".", "1", ".", "3", ".", " ", " ">>) }

Titles == {Str(<<"O", "v", "e", "r", "v", "i", "e", "w">>), Str(<<"3", "D">>)}

HeadingLine(lead, hashes, gap, numbering, title) ==
    lead \o [n \in 1..hashes |-> T("#")] \o gap \o numbering \o title

HeadingDocs ==
    { <<HeadingLine(lead, hashes, gap, numbering, title)>> :
        lead \in {<<>>, Str(<<" ">>)}, hashes \in 1..MaxHashes, gap \in {<<>>, Str(<<" ">>)},
        numbering \in Numberings, title \in Titles }

\* ASCII-art lines with arrows: every text of up to MaxArrowLine characters,
\* each an arrow, a letter or '<'.
ArrowPool == {"U+2192", "U+25BC", "a", "<"}

ArrowDocs == { <<Str(chars)>> : chars \in SeqsUpTo(ArrowPool, MaxArrowLine) \ {<<>>} }

\* A line that begins with a bold-italic span, alone and followed by text.
BoldItalicDocs ==
    { <<Str(<<"*", "*", "*", "x", "*", "*", "*">>)>>,
      <<Str(<<"*", "*", "*", "x", "y", "*", "*", "*", " ", "a", "n", "d">>)>> }

\* Texts with the characters that XML reserves, one of them an entity already
\* and one a closing tag, in each kind of block.
SpecialTexts ==
    { Str(<<"<">>), Str(<<"a", "&", "b">>), Str(<<"\"", "'">>), Str(<<"x", ">">>),
      Str(<<"&", "l", "t", ";">>), Str(<<"<", "/", "w", ":", "t", ">">>) }

EscapeDocs ==
    UNION { { <<Str(<<"#", " ">>) \o t>>,
              <<t>>,
              <<Str(<<">", " ">>) \o t>>,
              <<Str(<<"1", ".", " ">>) \o t>>,
              <<Str(<<"-", " ">>) \o t>>,
              <<PipeRow(<<t, t>>)>>,
              <<Fence, t, Fence>>,
              <<Str(<<"+", "-", "-", "+", " ">>) \o t>> } : t \in SpecialTexts }

\* Lines of one character repeated, alone, after a paragraph and after an
\* ASCII-art line.
RuleChars == {"-", "_", "*"}

RuleDocs ==
    { before \o << [n \in 1..count |-> T(c)] >> :
        c \in RuleChars, count \in 1..MaxRuleLen,
        before \in {<<>>, <<Str(<<"a">>)>>, <<Str(<<"+", "-", "-", "+">>)>>} }

\* Tables of two lines whose cells are letters or blank: '| a |  | c |'.
GappyRows ==
    { PipeRow([c \in DOMAIN filled |-> IF filled[c] THEN <<T(Letters[c])>> ELSE <<>>]) :
        filled \in SeqsUpTo(BOOLEAN, MaxCols) \ {<<>>} }

GappyTables == { <<first, second>> : first \in GappyRows, second \in GappyRows }

\* A table of two lines, an ASCII-art line with two arrows and a paragraph with
\* two spans: every loop runs more than once.
LoopsDoc ==
    << PipeRow(<<Str(<<"a">>), Str(<<"c">>)>>),
       PipeRow(<<Str(<<"d">>)>>),
       Str(<<"U+2192", " ", "U+25BC", " ", "e">>),
       Str(<<"*", "*", "b", "*", "*", " ", "*", "i", "*">>) >>

\* A rule of four, a block of five '_' and three '*', and a rule of three.
RulesDoc ==
    << Str(<<"-", "-", "-", "-">>), Str(<<"_", "_", "_", "_", "_">>),
       Str(<<"*", "*", "*">>), Str(<<"_", "_", "_">>) >>

MarkdownDocs ==
    ScanDocs \cup {AllRulesDoc} \cup CodeDocs \cup EditorTables \cup RaggedTables
    \cup InlineDocs \cup HeadingDocs
    \cup ArrowDocs \cup BoldItalicDocs \cup EscapeDocs \cup RuleDocs \cup GappyTables
    \cup {LoopsDoc, RulesDoc}

(***************************************************************************)
(* markdownToWordXml, one iteration of its loop at a time.                 *)
(***************************************************************************)
InitMarkdown ==
    /\ templatePath = DefaultTemplatePath
    /\ startPage = 3
    /\ pageSettings = NoSettings
    /\ files = [p \in Paths |-> Absent]
    /\ pc = "idle"
    /\ outcome = Pending
    /\ locals = NotRun
    /\ ioLog = <<>>
    /\ patchTrace = <<>>
    /\ \E lines \in MarkdownDocs : scan = Scan("loop", lines, 0, FALSE, <<>>, <<>>)
    /\ consumed = <<>>
    /\ calls = <<>>
    /\ initialFiles = files
    /\ NoWindow

\* The loop is at a line that takes the branch of the rule; one pass through
\* the loop body for that branch.
Takes(rule) ==
    /\ scan.pc = "loop"
    /\ scan.i < Len(scan.lines)
    /\ RuleOf(scan.lines, scan.i, scan.inCodeBlock) = rule

Iterate(rule) ==
    /\ \E it \in {LoopBody(rule, scan.lines, scan.i, scan.inCodeBlock, scan.codeLines)} :
          /\ scan' = Scan("loop", scan.lines, it.i, it.inCodeBlock, it.codeLines,
                          scan.xml \o it.xml)
          /\ consumed' = Append(consumed, [rule |-> rule, first |-> scan.i, last |-> it.i - 1,
                                           xml |-> it.xml])
    /\ UNCHANGED <<files, templatePath, startPage, pageSettings, pc, outcome, locals, ioLog,
                   patchTrace, calls, initialFiles, windowVars>>

FenceLine ==
    /\ Takes("fence")
    /\ Iterate("fence")

CodeLine ==
    /\ Takes("code")
    /\ Iterate("code")

EmptyLine ==
    /\ Takes("empty")
    /\ Iterate("empty")

TableLines ==
    /\ Takes("table")
    /\ Iterate("table")

AsciiArtLines ==
    /\ Takes("asciiArt")
    /\ Iterate("asciiArt")

HeadingRule ==
    /\ Takes("heading")
    /\ Iterate("heading")

QuoteLine ==
    /\ Takes("quote")
    /\ Iterate("quote")

OrderedItem ==
    /\ Takes("ordered")
    /\ Iterate("ordered")

UnorderedItem ==
    /\ Takes("unordered")
    /\ Iterate("unordered")

HorizontalRule ==
    /\ Takes("rule")
    /\ Iterate("rule")

NormalParagraph ==
    /\ Takes("paragraph")
    /\ Iterate("paragraph")

\* line 246
Return ==
    /\ scan.pc = "loop"
    /\ scan.i >= Len(scan.lines)
    /\ scan' = [scan EXCEPT !.pc = "returned"]
    /\ UNCHANGED <<files, templatePath, startPage, pageSettings, pc, outcome, locals, ioLog,
                   patchTrace, consumed, calls, initialFiles, windowVars>>

NextMarkdown ==
    \/ FenceLine \/ CodeLine \/ EmptyLine \/ TableLines \/ AsciiArtLines \/ HeadingRule
    \/ QuoteLine \/ OrderedItem \/ UnorderedItem \/ HorizontalRule \/ NormalParagraph
    \/ Return

SpecMarkdown == InitMarkdown /\ [][NextMarkdown]_vars

(***************************************************************************)
(* Several calls of convert() in flight.  convert (lines 22-54) is an      *)
(* async function without an await: its body runs to its end when it is    *)
(* called, and the promise it returns settles when the caller's await or   *)
(* then-callback runs.  Two calls whose promises are both pending are      *)
(* therefore two bodies run one after the other, in the order of the       *)
(* calls, over one file system.                                            *)
(***************************************************************************)
ConcurrentPaths == {DefaultTemplatePath, "out.docx", "out2.docx"}

\* The template an exporter is constructed with: the default one, or a document
\* exported earlier.
ConcurrentTemplatePaths == {DefaultTemplatePath, "out.docx"}

ConcurrentTemplates == {Docx(TemplateXml(<<"plain">>, "sized"))}

EarlierExports == {Absent, Docx(TemplateXml(<<>>, "plain"))}

ConcurrentStartPages == {1, 2}

ConcurrentPageSettings == {NoSettings, [size |-> "a4", orientation |-> "landscape"]}

ConcurrentMarkdown == {[isString |-> TRUE, lines |-> <<Str(<<"a", "<">>), <<>>>>]}

ConcurrentFaults == {"none", "write:ENOSPC"}

\* The fields of this (lines 14-16).
Exporter(path, page, settings) ==
    [templatePath |-> path, startPage |-> page, pageSettings |-> settings]

This == Exporter(templatePath, startPage, pageSettings)

\* One call: the exporter it was made on, its arguments, what its body did, what
\* the same body does over the file system before the first call, the exporter
\* when the body had ended, and the promise it returned.
Call(this, markdownContent, outputPath, fault, run, alone, thisAfter, promise) ==
    [this |-> this, markdownContent |-> markdownContent, outputPath |-> outputPath,
     fault |-> fault, run |-> run, alone |-> alone, thisAfter |-> thisAfter,
     promise |-> promise]

InitConcurrent ==
    /\ templatePath \in ConcurrentTemplatePaths
    /\ startPage \in ConcurrentStartPages
    /\ pageSettings \in ConcurrentPageSettings
    /\ \E t \in ConcurrentTemplates, o \in EarlierExports :
            files = [p \in ConcurrentPaths |->
                        IF p = DefaultTemplatePath THEN t
                        ELSE IF p = "out.docx" THEN o
                        ELSE Absent]
    /\ pc = "idle"
    /\ outcome = Pending
    /\ locals = NotRun
    /\ ioLog = <<>>
    /\ patchTrace = <<>>
    /\ scan = NoScan
    /\ consumed = <<>>
    /\ calls = <<>>
    /\ initialFiles = files
    /\ NoWindow

\* exporter.convert(markdownContent, outputPath) while the promise of an earlier
\* call, to another output path, may still be pending.
StartConvert(markdownContent, outputPath, fault) ==
    /\ Len(calls) < 2
    /\ \A c \in DOMAIN calls : calls[c].outputPath # outputPath
    /\ UNCHANGED <<templatePath, startPage, pageSettings>>
    /\ \E run \in {ConvertRun(markdownContent, outputPath, fault)},
          alone \in {ConvertRunOn(initialFiles[templatePath], markdownContent, outputPath,
                                  fault)} :
           /\ locals' = run
           /\ ioLog' = ioLog \o IoCalls(run, outputPath)
           /\ files' = FilesAfter(run, outputPath)
           /\ calls' = Append(calls,
                              Call(This, markdownContent, outputPath, fault, run, alone,
                                   Exporter(templatePath', startPage', pageSettings'),
                                   Pending))
    /\ UNCHANGED <<pc, outcome, patchTrace, scan, consumed, initialFiles, windowVars>>

\* The caller's continuation: the promise of call c is seen settled (line 49
\* returned outputPath, or line 52 rethrew).
Settle(c) ==
    /\ c \in DOMAIN calls
    /\ calls[c].promise = Pending
    /\ calls' = [calls EXCEPT ![c].promise =
                    IF calls[c].run.stage = "done"
                    THEN [status |-> "resolved", value |-> calls[c].outputPath,
                          error |-> NoError]
                    ELSE [status |-> "rejected", value |-> "", error |-> calls[c].run.error]]
    /\ UNCHANGED <<files, templatePath, startPage, pageSettings, pc, outcome, locals, ioLog,
                   patchTrace, scan, consumed, initialFiles, windowVars>>

\* new WordTemplateExporter(path, page, settings), lines 13-17: the second call
\* is made on another instance.
NewExporter(path, page, settings) ==
    /\ Len(calls) = 1
    /\ calls[1].this = This
    /\ Exporter(path, page, settings) # This
    /\ templatePath' = path
    /\ startPage' = page
    /\ pageSettings' = settings
    /\ UNCHANGED <<files, pc, outcome, locals, ioLog, patchTrace, scan, consumed, calls,
                   initialFiles, windowVars>>

NextConcurrent ==
    \/ \E markdownContent \in ConcurrentMarkdown, outputPath \in ConcurrentPaths,
          fault \in ConcurrentFaults :
            StartConvert(markdownContent, outputPath, fault)
    \/ \E c \in 1..2 : Settle(c)
    \/ \E path \in ConcurrentTemplatePaths, page \in ConcurrentStartPages,
          settings \in ConcurrentPageSettings :
            NewExporter(path, page, settings)

SpecConcurrent == InitConcurrent /\ [][NextConcurrent]_vars

(***************************************************************************)
(* preload.js: window.electronAPI, the bridge between the page and the     *)
(* main process.  A call of ipcRenderer.send or ipcRenderer.invoke is a    *)
(* message forwarded to the main process; ipcRenderer.on and               *)
(* ipcRenderer.once register a listener.                                   *)
(***************************************************************************)
MaxApiCalls == 2    \* calls made on window.electronAPI

\* lines 18-94
ALLOWED_SEND_CHANNELS ==
    { "save-file", "save-current-file", "set-current-file", "save-recent-files",
      "clear-recent-files", "renderer-ready", "get-theme", "do-print",
      "export-with-options", "export-spreadsheet", "batch-convert", "select-folder",
      "universal-convert", "universal-convert-batch", "image-convert",
      "image-batch-convert", "image-resize", "image-compress", "image-rotate",
      "audio-convert", "audio-batch-convert", "audio-extract", "audio-trim", "audio-merge",
      "video-convert", "video-batch-convert", "video-compress", "video-trim",
      "video-frames", "video-gif", "get-header-footer-settings",
      "save-header-footer-settings", "browse-header-footer-logo",
      "save-header-footer-logo", "clear-header-footer-logo", "get-page-settings",
      "update-page-settings", "set-custom-start-page", "process-pdf-operation",
      "get-pdf-page-count", "select-pdf-folder", "open-ascii-generator",
      "open-table-generator", "insert-generated-content" }

\* lines 96-180
ALLOWED_RECEIVE_CHANNELS ==
    { "file-new", "file-opened", "file-save", "get-content-for-save",
      "get-content-for-spreadsheet", "recent-files-cleared", "toggle-preview",
      "toggle-find", "theme-changed", "theme-data", "undo", "redo", "adjust-font-size",
      "print-preview", "print-preview-styled", "show-export-dialog", "show-batch-dialog",
      "show-universal-converter-dialog", "show-table-generator", "show-pdf-editor-dialog",
      "show-image-converter", "show-audio-converter", "show-video-converter",
      "open-pdf-viewer", "conversion-status", "conversion-complete", "batch-progress",
      "image-conversion-complete", "audio-conversion-complete",
      "video-conversion-complete", "folder-selected", "pdf-folder-selected",
      "header-footer-settings-data", "header-footer-logo-selected",
      "header-footer-logo-saved", "page-settings-data", "pdf-page-count",
      "pdf-operation-complete", "pdf-operation-error", "show-ascii-generator-window",
      "show-ascii-generator", "show-table-generator-window", "open-header-footer-dialog",
      "header-footer-logo-cleared", "pdf-operation-progress", "insert-content" }

\* lines 272-370: each convenience method and the channel it sends on
ConvenienceMethods ==
    { <<"file.save", "save-file">>,
      <<"file.saveCurrent", "save-current-file">>,
      <<"file.setCurrent", "set-current-file">>,
      <<"file.saveRecent", "save-recent-files">>,
      <<"file.clearRecent", "clear-recent-files">>,
      <<"file.rendererReady", "renderer-ready">>,
      <<"theme.get", "get-theme">>,
      <<"print.doPrint", "do-print">>,
      <<"export.withOptions", "export-with-options">>,
      <<"export.spreadsheet", "export-spreadsheet">>,
      <<"batch.convert", "batch-convert">>,
      <<"batch.selectFolder", "select-folder">>,
      <<"converter.convert", "universal-convert">>,
      <<"converter.convertBatch", "universal-convert-batch">>,
      <<"headerFooter.getSettings", "get-header-footer-settings">>,
      <<"headerFooter.saveSettings", "save-header-footer-settings">>,
      <<"headerFooter.browseLogo", "browse-header-footer-logo">>,
      <<"headerFooter.saveLogo", "save-header-footer-logo">>,
      <<"headerFooter.clearLogo", "clear-header-footer-logo">>,
      <<"page.getSettings", "get-page-settings">>,
      <<"page.updateSettings", "update-page-settings">>,
      <<"page.setCustomStartPage", "set-custom-start-page">>,
      <<"pdf.processOperation", "process-pdf-operation">>,
      <<"pdf.getPageCount", "get-pdf-page-count">>,
      <<"pdf.selectFolder", "select-pdf-folder">>,
      <<"image.convert", "image-convert">>,
      <<"image.batchConvert", "image-batch-convert">>,
      <<"image.resize", "image-resize">>,
      <<"image.compress", "image-compress">>,
      <<"image.rotate", "image-rotate">>,
      <<"audio.convert", "audio-convert">>,
      <<"audio.batchConvert", "audio-batch-convert">>,
      <<"audio.extract", "audio-extract">>,
      <<"audio.trim", "audio-trim">>,
      <<"audio.merge", "audio-merge">>,
      <<"video.convert", "video-convert">>,
      <<"video.batchConvert", "video-batch-convert">>,
      <<"video.compress", "video-compress">>,
      <<"video.trim", "video-trim">>,
      <<"video.extractFrames", "video-frames">>,
      <<"video.toGif", "video-gif">>,
      <<"generators.openAscii", "open-ascii-generator">>,
      <<"generators.openTable", "open-table-generator">> }

\* Channel names the page may pass: allowed for sending, allowed for
\* receiving, and in neither list.
ChannelPool ==
    { "save-file", "insert-generated-content", "file-opened", "insert-content", "undo",
      "shell-exec", "SAVE-FILE", "" }

\* What ipcRenderer.invoke's promise does: the main process answers, or has no
\* handler for the channel.
InvokeReplies == {"response", "rejected"}

Forwarded(via, channel) == [via |-> via, channel |-> channel]

Listener(id, channel, once) == [id |-> id, channel |-> channel, once |-> once]

Called(method, channel, returned) ==
    [n |-> result.n + 1, method |-> method, channel |-> channel, returned |-> returned]

\* The page can make another call.
CanCall == result.n < MaxApiCalls

ListenerIds == 1..(MaxApiCalls + 1)

FreeListenerId == Min({ id \in ListenerIds : \A l \in listeners : l.id # id })

\* The preload script has run: nothing was sent, nothing is registered.
InitBridge ==
    /\ templatePath = DefaultTemplatePath
    /\ startPage = 3
    /\ pageSettings = NoSettings
    /\ files = [p \in Paths |-> Absent]
    /\ pc = "idle"
    /\ outcome = Pending
    /\ locals = NotRun
    /\ ioLog = <<>>
    /\ patchTrace = <<>>
    /\ scan = NoScan
    /\ consumed = <<>>
    /\ calls = <<>>
    /\ initialFiles = files
    /\ NoBridge
    /\ NoRenderer

send_Unchecked(channel) ==
    /\ CanCall
    /\ forwarded' = Append(forwarded, Forwarded("send", channel))
    /\ result' = Called("send", channel, "undefined")
    /\ UNCHANGED <<listeners, exporterVars, rendererVars>>

\* lines 196-202
send(channel) ==
    /\ CanCall
    /\ IF channel \in ALLOWED_SEND_CHANNELS
       THEN forwarded' = Append(forwarded, Forwarded("send", channel))
       ELSE UNCHANGED forwarded
    /\ result' = Called("send", channel, "undefined")
    /\ UNCHANGED <<listeners, exporterVars, rendererVars>>

\* lines 210-217
invoke(channel, reply) ==
    /\ CanCall
    /\ IF channel \in ALLOWED_SEND_CHANNELS
       THEN /\ forwarded' = Append(forwarded, Forwarded("invoke", channel))
            /\ result' = Called("invoke", channel, reply)
       ELSE /\ UNCHANGED forwarded
            /\ result' = Called("invoke", channel, "null")
    /\ UNCHANGED <<listeners, exporterVars, rendererVars>>

\* lines 229-242: the function returned removes the listener, or does nothing
on(channel) ==
    /\ CanCall
    /\ IF channel \in ALLOWED_RECEIVE_CHANNELS
       THEN /\ listeners' = listeners \cup {Listener(FreeListenerId, channel, FALSE)}
            /\ result' = Called("on", channel, "cleanup")
       ELSE /\ UNCHANGED listeners
            /\ result' = Called("on", channel, "no-op")
    /\ UNCHANGED <<forwarded, exporterVars, rendererVars>>

\* lines 249-255
once(channel) ==
    /\ CanCall
    /\ IF channel \in ALLOWED_RECEIVE_CHANNELS
       THEN listeners' = listeners \cup {Listener(FreeListenerId, channel, TRUE)}
       ELSE UNCHANGED listeners
    /\ result' = Called("once", channel, "undefined")
    /\ UNCHANGED <<forwarded, exporterVars, rendererVars>>

\* lines 261-265
removeAllListeners(channel) ==
    /\ CanCall
    /\ IF channel \in ALLOWED_RECEIVE_CHANNELS
       THEN listeners' = { l \in listeners : l.channel # channel }
       ELSE UNCHANGED listeners
    /\ result' = Called("removeAllListeners", channel, "undefined")
    /\ UNCHANGED <<forwarded, exporterVars, rendererVars>>

\* lines 235-237: the page calls the function that on returned for listener id
Cleanup(id) ==
    /\ \E l \in listeners :
          /\ l.id = id
          /\ ~l.once
          /\ listeners' = listeners \ {l}
    /\ UNCHANGED <<forwarded, result, exporterVars, rendererVars>>

\* line 251: a message of the main process on the channel of a listener
\* registered with ipcRenderer.once uses the listener up
MainSends(id) ==
    /\ \E l \in listeners :
          /\ l.id = id
          /\ l.once
          /\ listeners' = listeners \ {l}
    /\ UNCHANGED <<forwarded, result, exporterVars, rendererVars>>

\* lines 272-370: a convenience method sends on its channel
Convenience(method) ==
    /\ CanCall
    /\ method \in ConvenienceMethods
    /\ forwarded' = Append(forwarded, Forwarded("send", method[2]))
    /\ result' = Called(method[1], method[2], "undefined")
    /\ UNCHANGED <<listeners, exporterVars, rendererVars>>

NextBridge ==
    \/ \E channel \in ChannelPool : send(channel)
    \/ \E channel \in ChannelPool, reply \in InvokeReplies : invoke(channel, reply)
    \/ \E channel \in ChannelPool : on(channel)
    \/ \E channel \in ChannelPool : once(channel)
    \/ \E channel \in ChannelPool : removeAllListeners(channel)
    \/ \E id \in ListenerIds : Cleanup(id)
    \/ \E id \in ListenerIds : MainSends(id)
    \/ \E method \in ConvenienceMethods : Convenience(method)

SpecBridge == InitBridge /\ [][NextBridge]_vars

(***************************************************************************)
(* renderer.js: the TabManager and the handlers of the page.  A handler    *)
(* runs to its end before the next one starts; the methods are operators   *)
(* on the manager m, a record of the fields and of what the page holds.    *)
(***************************************************************************)
MaxTabId == 3       \* the largest tab id that is given out
MaxUndo == 2        \* entries of the undo stack of a tab

\* What the user leaves in the editor, and what a file holds.
Texts == {"A", "B"}

FileTexts == {"A"}

FilePaths == {"a.md", "b.md"}

\* A field that was never assigned.
Undefined == "undefined"

\* line 496
UndoLimit == 50

Manager ==
    [tabs |-> tabs, activeTabId |-> activeTabId, nextTabId |-> nextTabId,
     autoSaveInterval |-> autoSaveInterval, recentFiles |-> recentFiles,
     editors |-> editors, timeouts |-> timeouts, sent |-> sent,
     currentFile |-> currentFile, usedIds |-> usedIds]

\* lines 40-50 and 107-117; originalContent and lastSavedContent are not set
NewTab ==
    [content |-> "", filePath |-> NoPath, isDirty |-> FALSE, undoStack |-> <<>>,
     redoStack |-> <<>>, originalContent |-> Undefined, lastSavedContent |-> Undefined]

Without(f, key) == [k \in DOMAIN f \ {key} |-> f[k]]

With(f, key, value) == [k \in DOMAIN f \cup {key} |-> IF k = key THEN value ELSE f[k]]

\* ipcRenderer.send(channel, ...): path and content are what the message
\* carries; tab is the tab the content was taken from, file its filePath and
\* announced the path of the latest 'set-current-file' at that time.
Send(m, channel, path, content, tab) ==
    [m EXCEPT !.sent = Append(m.sent,
                              [channel |-> channel, path |-> path, content |-> content,
                               tab |-> tab,
                               file |-> IF tab \in DOMAIN m.tabs THEN m.tabs[tab].filePath
                                        ELSE NoPath,
                               announced |-> m.currentFile]),
              !.currentFile = IF channel = "set-current-file" THEN path ELSE m.currentFile]

\* lines 277-286
saveCurrentTabState(m) ==
    IF m.activeTabId \notin DOMAIN m.tabs \/ m.activeTabId \notin DOMAIN m.editors THEN m
    ELSE LET tab == m.tabs[m.activeTabId]
             value == m.editors[m.activeTabId]
         IN  [m EXCEPT !.tabs[m.activeTabId].content = value,
                       !.tabs[m.activeTabId].isDirty =
                            (value # IF tab.originalContent \in {Undefined, ""} THEN ""
                                     ELSE tab.originalContent)]

\* lines 288-299
restoreTabState(m, tabId) ==
    IF tabId \notin DOMAIN m.tabs \/ tabId \notin DOMAIN m.editors THEN m
    ELSE [m EXCEPT !.editors[tabId] = m.tabs[tabId].content]

\* lines 170-188
switchToTab(m, tabId) ==
    IF tabId \notin DOMAIN m.tabs THEN m
    ELSE LET saved == IF m.activeTabId # 0 /\ m.activeTabId \in DOMAIN m.tabs
                      THEN saveCurrentTabState(m) ELSE m
             restored == restoreTabState([saved EXCEPT !.activeTabId = tabId], tabId)
         IN  IF restored.tabs[tabId].filePath # NoPath
             THEN Send(restored, "set-current-file", restored.tabs[tabId].filePath, "", 0)
             ELSE restored

\* lines 105-124, with createTabElements (lines 126-168) and startAutoSave
\* (lines 533-541)
createNewTab(m) ==
    LET newTabId == m.nextTabId
        created == [m EXCEPT !.nextTabId = m.nextTabId + 1,
                             !.tabs = With(m.tabs, newTabId, NewTab),
                             !.editors = With(m.editors, newTabId, ""),
                             !.usedIds = m.usedIds \cup {newTabId}]
    IN  [switchToTab(created, newTabId) EXCEPT !.autoSaveInterval = TRUE]

closeTab_KeepsActive(m, tabId, confirmed) ==
    IF Cardinality(DOMAIN m.tabs) = 1 THEN m
    ELSE IF tabId \notin DOMAIN m.tabs THEN m
    ELSE IF m.tabs[tabId].isDirty /\ ~confirmed THEN m
    ELSE [m EXCEPT !.tabs = Without(m.tabs, tabId), !.editors = Without(m.editors, tabId)]

\* lines 197-227: confirmed is the answer to confirm().  The keys of the Map are
\* in insertion order, which is the order of the ids.  Line 200 throws for an
\* id that is not open.
closeTab(m, tabId, confirmed) ==
    IF Cardinality(DOMAIN m.tabs) = 1 THEN m
    ELSE IF tabId \notin DOMAIN m.tabs THEN m
    ELSE IF m.tabs[tabId].isDirty /\ ~confirmed THEN m
    ELSE LET deleted == [m EXCEPT !.tabs = Without(m.tabs, tabId),
                                  !.editors = Without(m.editors, tabId)]
         IN  IF m.activeTabId = tabId
             THEN switchToTab(deleted, Min(DOMAIN deleted.tabs))
             ELSE deleted

\* lines 491-500
pushUndoState(m, tabId) ==
    IF tabId \notin DOMAIN m.tabs THEN m
    ELSE LET pushed == Append(m.tabs[tabId].undoStack, m.tabs[tabId].content)
         IN  [m EXCEPT !.tabs[tabId].undoStack =
                            IF Len(pushed) > UndoLimit THEN Tail(pushed) ELSE pushed,
                       !.tabs[tabId].redoStack = <<>>]

\* lines 472-489
handleEditorInput(m, tabId) ==
    IF tabId \notin DOMAIN m.tabs \/ tabId \notin DOMAIN m.editors THEN m
    ELSE pushUndoState([m EXCEPT !.tabs[tabId].content = m.editors[tabId],
                                 !.tabs[tabId].isDirty = TRUE],
                       tabId)

\* The listeners of the input event call handleEditorInput, each once: the one
\* of lines 153-155 or 1078-1082, and the one of lines 456-461 when the
\* textarea is its target.
RECURSIVE HandleInputs(_, _, _)
HandleInputs(m, tabId, times) ==
    IF times = 0 THEN m ELSE HandleInputs(handleEditorInput(m, tabId), tabId, times - 1)

Last(stack) == stack[Len(stack)]

Pop(stack) == SubSeq(stack, 1, Len(stack) - 1)

\* lines 502-515
undo(m) ==
    IF m.activeTabId \notin DOMAIN m.tabs THEN m
    ELSE LET tab == m.tabs[m.activeTabId]
         IN  IF tab.undoStack = <<>> THEN m
             ELSE [m EXCEPT !.tabs[m.activeTabId].redoStack = Append(tab.redoStack, tab.content),
                            !.tabs[m.activeTabId].content = Last(tab.undoStack),
                            !.tabs[m.activeTabId].undoStack = Pop(tab.undoStack),
                            !.editors = IF m.activeTabId \in DOMAIN m.editors
                                        THEN With(m.editors, m.activeTabId, Last(tab.undoStack))
                                        ELSE m.editors]

\* lines 517-530
redo(m) ==
    IF m.activeTabId \notin DOMAIN m.tabs THEN m
    ELSE LET tab == m.tabs[m.activeTabId]
         IN  IF tab.redoStack = <<>> THEN m
             ELSE [m EXCEPT !.tabs[m.activeTabId].undoStack = Append(tab.undoStack, tab.content),
                            !.tabs[m.activeTabId].content = Last(tab.redoStack),
                            !.tabs[m.activeTabId].redoStack = Pop(tab.redoStack),
                            !.editors = IF m.activeTabId \in DOMAIN m.editors
                                        THEN With(m.editors, m.activeTabId, Last(tab.redoStack))
                                        ELSE m.editors]

\* lines 550-562
performAutoSave(m) ==
    IF m.activeTabId \notin DOMAIN m.tabs THEN m
    ELSE LET tab == m.tabs[m.activeTabId]
         IN  IF tab.filePath = NoPath \/ tab.content = "" THEN m
             ELSE IF tab.lastSavedContent = tab.content THEN m
             ELSE [Send(m, "save-file", tab.filePath, tab.content, m.activeTabId)
                      EXCEPT !.tabs[m.activeTabId].lastSavedContent = tab.content]

\* lines 581-595
addToRecentFiles(m, filePath) ==
    LET recent == <<filePath>> \o SelectSeq(m.recentFiles, LAMBDA f : f # filePath)
    IN  Send([m EXCEPT !.recentFiles =
                            SubSeq(recent, 1, IF Len(recent) < 10 THEN Len(recent) ELSE 10)],
             "save-recent-files", "", "", 0)

Opened(tab, filePath, content) ==
    [tab EXCEPT !.filePath = filePath, !.content = content, !.originalContent = content,
                !.isDirty = FALSE]

\* lines 1005-1058: the callback of the setTimeout of line 1041 is left in
\* timeouts.  Line 1012 throws when the active tab is not open.
openFile(m, filePath, content) ==
    IF m.activeTabId \notin DOMAIN m.tabs THEN m
    ELSE LET tab == m.tabs[m.activeTabId]
             opened ==
                IF tab.filePath = NoPath /\ ~tab.isDirty /\ tab.content = ""
                THEN [m EXCEPT !.tabs[m.activeTabId] = Opened(tab, filePath, content),
                               !.editors = IF m.activeTabId \in DOMAIN m.editors
                                           THEN With(m.editors, m.activeTabId, content)
                                           ELSE m.editors]
                ELSE LET created == createNewTab(m)
                     IN  [created EXCEPT
                            !.tabs[created.activeTabId] =
                                Opened(created.tabs[created.activeTabId], filePath, content),
                            !.timeouts = Append(created.timeouts, content)]
         IN  Send(addToRecentFiles([opened EXCEPT !.autoSaveInterval = TRUE], filePath),
                  "set-current-file", filePath, "", 0)

\* lines 1041-1048: the callback writes to the editor of the tab that is
\* active when it runs
openFileTimeout(m) ==
    [m EXCEPT !.timeouts = Tail(m.timeouts),
              !.editors = IF m.activeTabId \in DOMAIN m.editors
                          THEN With(m.editors, m.activeTabId, Head(m.timeouts))
                          ELSE m.editors]

\* lines 1105-1113: tabs.forEach visits the tabs in the order of the ids
RECURSIVE saveDirtyTabs(_, _)
saveDirtyTabs(m, ids) ==
    IF ids = {} THEN m
    ELSE LET id == Min(ids)
             tab == m.tabs[id]
         IN  saveDirtyTabs(IF tab.isDirty /\ tab.filePath # NoPath
                           THEN Send(m, "save-current-file", "", tab.content, id)
                           ELSE m,
                           ids \ {id})

\* lines 1130-1136, with getCurrentContent and getCurrentFilePath (1060-1068)
fileSave(m) ==
    IF m.activeTabId \in DOMAIN m.tabs /\ m.tabs[m.activeTabId].filePath # NoPath
    THEN Send(m, "save-current-file", "", m.tabs[m.activeTabId].content, m.activeTabId)
    ELSE m

\* The handlers that lastOp tells apart; before is the content of the active
\* tab when an input or an undo began, afterInput that the undo came right
\* after an input.
WatchedOps == {"input", "undo", "redo", "closeTab"}

\* The handler op ran and left the manager m.
Ran(op, m) ==
    /\ tabs' = m.tabs
    /\ activeTabId' = m.activeTabId
    /\ nextTabId' = m.nextTabId
    /\ autoSaveInterval' = m.autoSaveInterval
    /\ recentFiles' = m.recentFiles
    /\ editors' = m.editors
    /\ timeouts' = m.timeouts
    /\ sent' = m.sent
    /\ currentFile' = m.currentFile
    /\ usedIds' = m.usedIds
    /\ lastOp' = [op |-> IF op \in WatchedOps THEN op ELSE "other",
                  before |-> IF op \in {"input", "undo"} /\ activeTabId \in DOMAIN tabs
                             THEN tabs[activeTabId].content ELSE "",
                  afterInput |-> op = "undo" /\ lastOp.op = "input"]
    /\ UNCHANGED <<exporterVars, bridgeVars>>

\* The manager when a handler starts.
Start == [Manager EXCEPT !.sent = <<>>]

\* lines 29-54 and 1074-1083: new TabManager() in a page with the editor of
\* tab 1
InitRenderer ==
    /\ templatePath = DefaultTemplatePath
    /\ startPage = 3
    /\ pageSettings = NoSettings
    /\ files = [p \in Paths |-> Absent]
    /\ pc = "idle"
    /\ outcome = Pending
    /\ locals = NotRun
    /\ ioLog = <<>>
    /\ patchTrace = <<>>
    /\ scan = NoScan
    /\ consumed = <<>>
    /\ calls = <<>>
    /\ initialFiles = files
    /\ NoBridge
    /\ tabs = [id \in {1} |-> NewTab]
    /\ activeTabId = 1
    /\ nextTabId = 2
    /\ autoSaveInterval = FALSE
    /\ recentFiles = <<>>
    /\ editors = [id \in {1} |-> ""]
    /\ timeouts = <<>>
    /\ sent = <<>>
    /\ currentFile = NoPath
    /\ usedIds = {1}
    /\ lastOp = NoOp

\* lines 58, 82-87 and 1116-1119
CreateNewTab ==
    /\ nextTabId <= MaxTabId
    /\ Ran("createNewTab", createNewTab(Start))

\* lines 64-67
SwitchToTab(tabId) ==
    /\ Ran("switchToTab", switchToTab(Start, tabId))

\* lines 60-63, 88-92 and 3090
CloseTab(tabId, confirmed) ==
    /\ Ran("closeTab", closeTab(Start, tabId, confirmed))

\* The user changes the text of the visible editor; the input event follows.
EditorInput(value, times) ==
    /\ activeTabId \in DOMAIN editors
    /\ value # editors[activeTabId]
    /\ times = 2 \/ activeTabId = 1
    /\ Len(tabs[activeTabId].undoStack) + times <= MaxUndo
    /\ Ran("input", HandleInputs([Start EXCEPT !.editors[activeTabId] = value],
                                 activeTabId, times))

\* lines 1176-1180
Undo ==
    /\ Ran("undo", undo(Start))

\* lines 1182-1186
Redo ==
    /\ Ran("redo", redo(Start))

\* lines 1121-1128
FileOpened(filePath, content) ==
    /\ nextTabId <= MaxTabId
    /\ Ran("openFile", openFile(Start, filePath, content))

OpenFileTimeout ==
    /\ timeouts # <<>>
    /\ Ran("timeout", openFileTimeout(Start))

\* lines 538-540
AutoSaveInterval ==
    /\ autoSaveInterval
    /\ Ran("performAutoSave", performAutoSave(Start))

\* lines 1105-1113
SaveInterval ==
    /\ Ran("saveInterval", saveDirtyTabs(Start, DOMAIN tabs))

\* lines 1130-1136
FileSave ==
    /\ Ran("fileSave", fileSave(Start))

\* One tab or several, with typing, undo and redo.
NextUndo ==
    \/ \E value \in Texts, times \in {1, 2} : EditorInput(value, times)
    \/ Undo
    \/ Redo
    \/ \E filePath \in FilePaths, content \in FileTexts : FileOpened(filePath, content)
    \/ \E tabId \in 1..MaxTabId : SwitchToTab(tabId)

SpecUndo == InitRenderer /\ [][NextUndo]_vars

\* Tabs are created, switched to and closed, files are opened, and typing
\* makes a tab dirty so that closing it asks.
NextTabs ==
    \/ CreateNewTab
    \/ \E tabId \in 1..MaxTabId : SwitchToTab(tabId)
    \/ \E tabId \in 1..MaxTabId, confirmed \in BOOLEAN : CloseTab(tabId, confirmed)
    \/ \E filePath \in FilePaths, content \in FileTexts : FileOpened(filePath, content)
    \/ OpenFileTimeout
    \/ \E value \in Texts, times \in {1, 2} : EditorInput(value, times)

SpecTabs == InitRenderer /\ [][NextTabs]_vars

\* Files are opened in tabs, edited and switched between while the two
\* intervals and the Save command run.
NextAutoSave ==
    \/ \E filePath \in FilePaths, content \in FileTexts : FileOpened(filePath, content)
    \/ OpenFileTimeout
    \/ \E value \in {"B"}, times \in {1, 2} : EditorInput(value, times)
    \/ \E tabId \in 1..MaxTabId : SwitchToTab(tabId)
    \/ AutoSaveInterval
    \/ SaveInterval
    \/ FileSave

SpecAutoSave == InitRenderer /\ [][NextAutoSave]_vars

(***************************************************************************)
(* Vocabulary of the properties.                                           *)
(***************************************************************************)
Positions(xml, S) == { i \in DOMAIN xml : xml[i] \in S }

\* The n-th smallest element of a set of numbers.
Nth(P, n) == CHOOSE i \in P : Cardinality({ j \in P : j < i }) = n - 1

\* A section boundary of a template runs from an opening <w:sectPr ...> tag to the
\* next </w:sectPr>; BoundaryEnds are the offsets just after each boundary and
\* BoundaryStarts the indexes of their opening tags.
BoundaryEnds(xml) == Positions(xml, {SectPrClose})

BoundaryStarts(xml) == Positions(xml, SectPrOpenTags)

BoundaryCount(xml) == Cardinality(BoundaryEnds(xml))

\* convert reached the splice: insertContentAfterPage returned.
Spliced == pc = "done" /\ locals.stage \in {"write", "done"}

Splice(doc, o, frag) == SubSeq(doc, 1, o) \o frag \o SubSeq(doc, o + 1, Len(doc))

\* C1: with k section boundaries and 1 < startPage <= k+1, the fragment starts
\* immediately after the end of boundary startPage-1: the result is the document
\* up to that offset, then the fragment, then the rest; in the result the
\* fragment lies after boundary startPage-1 and before boundary startPage (or
\* before </w:body> when startPage-1 = k), and adds no boundary of its own.
C1_SpliceAfterBoundary ==
    (Spliced /\ 1 < startPage /\ startPage <= BoundaryCount(locals.documentXml) + 1) =>
        LET doc == locals.documentXml
            out == locals.modifiedXml
            frag == locals.newContentXml
            k == BoundaryCount(doc)
            o == Nth(BoundaryEnds(doc), startPage - 1)
        IN  /\ out = Splice(doc, o, frag)
            /\ BoundaryCount(out) = k
            /\ Nth(BoundaryEnds(out), startPage - 1) = o
            /\ startPage <= k => Nth(BoundaryStarts(out), startPage) > o + Len(frag)
            /\ startPage - 1 = k => IndexOf(out, BodyClose) >= o + Len(frag)

C1_Witness ==
    /\ Spliced
    /\ locals.stage = "done"
    /\ startPage = 3
    /\ BoundaryCount(locals.documentXml) = 3
    /\ locals.newContentXml # <<>>
    /\ files["out.docx"] = Docx(locals.modifiedXml)

\* The offset at which the fragment is to be inserted into doc for page p.
InsertionOffset(doc, p) ==
    LET k == BoundaryCount(doc)
    IN  IF p > 1 /\ p - 1 <= k THEN Nth(BoundaryEnds(doc), p - 1)
        ELSE IF p = 1 \/ k = 0 THEN IndexOf(doc, BodyOpen) + 1
        ELSE IndexOf(doc, BodyClose)

\* The part of the written document that precedes the fragment, and the
\* corresponding part of the template.
OutputPrefix == SubSeq(files["out.docx"].xml, 1, InsertionOffset(locals.documentXml, startPage))

TemplatePrefix ==
    SubSeq(files[templatePath].xml, 1, InsertionOffset(files[templatePath].xml, startPage))

StripPgSz(xml) == SelectSeq(xml, LAMBDA a : ~IsPgSz(a))

\* C2 as stated: with or without page settings, the part of the output document
\* that precedes the fragment is identical to that part of the template.
C2_PrefixIdentical ==
    (pc = "done" /\ locals.stage = "done") => OutputPrefix = TemplatePrefix

\* C2 as amended: without page settings the part of the output that precedes the
\* fragment is identical to that part of the template; with page settings it is
\* identical except for its <w:pgSz> elements.
C2_PrefixIdenticalUpToPgSz ==
    (pc = "done" /\ locals.stage = "done") =>
        /\ pageSettings = NoSettings => OutputPrefix = TemplatePrefix
        /\ StripPgSz(OutputPrefix) = StripPgSz(TemplatePrefix)

C2_Witness ==
    /\ pc = "done"
    /\ locals.stage = "done"
    /\ pageSettings # NoSettings
    /\ startPage = 3
    /\ HasPgSz(TemplatePrefix)
    /\ OutputPrefix # TemplatePrefix

\* C3: the splice is pure concatenation: the result is the document cut at some
\* offset with the fragment, verbatim, in between.
C3_PureConcatenation ==
    Spliced =>
        \E o \in 0..Len(locals.documentXml) :
            locals.modifiedXml = Splice(locals.documentXml, o, locals.newContentXml)

\* C4: with startPage = 1 or no boundary at all the fragment stands immediately
\* after <w:body>; with at least one boundary and startPage-1 above their number
\* it stands immediately before </w:body>.
C4_Fallbacks ==
    Spliced =>
        LET doc == locals.documentXml
            k == BoundaryCount(doc)
        IN  /\ (startPage = 1 \/ k = 0) =>
                    locals.modifiedXml =
                        Splice(doc, IndexOf(doc, BodyOpen) + 1, locals.newContentXml)
            /\ (k >= 1 /\ startPage - 1 > k) =>
                    locals.modifiedXml =
                        Splice(doc, IndexOf(doc, BodyClose), locals.newContentXml)

\* The elements open after the first n atoms of xml, outermost first.
OpenTags ==
    { T("<w:document>"), BodyOpen, T("<w:p>"), T("<w:pPr>"), T("<w:r>"), T("<w:rPr>"),
      T("<w:t>"), T("<w:t xml:space=\"preserve\">") } \cup SectPrOpenTags

CloseTags ==
    { T("</w:document>"), BodyClose, T("</w:p>"), T("</w:pPr>"), T("</w:r>"), T("</w:rPr>"),
      T("</w:t>"), SectPrClose }

\* What a piece of xml does to the elements that are open before it: it closes
\* 'pops' of them (as many as there are, at most) and then opens 'pushes'.
StackEffectOf(a) ==
    IF a \in OpenTags THEN [pops |-> 0, pushes |-> <<a>>]
    ELSE IF a \in CloseTags THEN [pops |-> 1, pushes |-> <<>>]
    ELSE [pops |-> 0, pushes |-> <<>>]

Then(first, second) ==
    IF second.pops <= Len(first.pushes)
    THEN [pops |-> first.pops,
          pushes |-> SubSeq(first.pushes, 1, Len(first.pushes) - second.pops)
                     \o second.pushes]
    ELSE [pops |-> first.pops + second.pops - Len(first.pushes), pushes |-> second.pushes]

RECURSIVE StackEffect(_, _, _)
StackEffect(xml, lo, hi) ==
    IF lo > hi THEN [pops |-> 0, pushes |-> <<>>]
    ELSE IF lo = hi THEN StackEffectOf(xml[lo])
    ELSE Then(StackEffect(xml, lo, (lo + hi) \div 2),
              StackEffect(xml, (lo + hi) \div 2 + 1, hi))

\* The elements that are open after the first n atoms of xml, outermost first.
OpenElements(xml, n) == StackEffect(xml, 1, n).pushes

IsChildOfBody(xml, i) ==
    LET open == OpenElements(xml, i - 1)
    IN  open # <<>> /\ open[Len(open)] = BodyOpen

\* Every paragraph is a direct child of <w:body>, and none follows a <w:sectPr>
\* that is itself a child of <w:body>.
BlocksWellPlaced(xml) ==
    \A i \in DOMAIN xml :
        xml[i] = T("<w:p>") =>
            /\ IsChildOfBody(xml, i)
            /\ ~\E j \in 1..(i - 1) : xml[j] \in SectPrOpenTags /\ IsChildOfBody(xml, j)

EndsWithBodySectPr(xml) ==
    \E j \in DOMAIN xml :
        /\ xml[j] = SectPrClose
        /\ j < Len(xml)
        /\ xml[j + 1] = BodyClose

\* C5: for a template whose intermediate section breaks sit in paragraph
\* properties and whose last <w:sectPr> is the final child of <w:body>, the
\* inserted blocks are direct children of <w:body> and none follows the
\* body-level <w:sectPr>.
C5_WellFormed ==
    (Spliced /\ EndsWithBodySectPr(locals.documentXml)
             /\ BlocksWellPlaced(locals.documentXml)) =>
        BlocksWellPlaced(locals.modifiedXml)

\* The error each cause of failure before the write makes convert throw.
ExpectedEarlyError ==
    IF files[templatePath].kind = "absent"
    THEN Err("Error", "ENOENT", "open", templatePath, "")
    ELSE IF locals.stage = "read" THEN Err("Error", "EACCES", "open", templatePath, "")
    ELSE IF locals.stage = "unzip" THEN ZipError
    ELSE IF locals.stage = "entry" THEN NullEntryError
    ELSE NotAStringError

IoOps(log) == [i \in DOMAIN log |-> log[i].op]

\* C6: a call that fails before the final write rejects with the error of the
\* failing step, never yields outputPath, makes each file-system call at most
\* once and never writes, so every file is as it was before the call; in every
\* call the write, when it happens, happens once and is the last thing done.
C6_FailureBeforeWrite ==
    [][ (pc = "idle" /\ pc' = "done") =>
            /\ locals'.stage \notin {"write", "done"} =>
                    /\ outcome'.status = "rejected"
                    /\ outcome'.error = ExpectedEarlyError'
                    /\ outcome'.value \notin OutputPaths
                    /\ files' = files
                    /\ IoOps(ioLog') = <<"readFileSync">>
            /\ IoOps(ioLog') \in {<<"readFileSync">>, <<"readFileSync", "writeFileSync">>}
      ]_vars

C6_Witness ==
    /\ pc = "done"
    /\ locals.stage = "emit"
    /\ outcome.status = "rejected"
    /\ files["out.docx"] # Absent

\* C7: a failure while loading the template surfaces as TemplateReadError and a
\* failure of the write as ExportWriteError, each carrying the path.
C7_ErrorKinds ==
    (pc = "done" /\ outcome.status = "rejected") =>
        /\ locals.stage \in {"read", "unzip", "entry"} =>
                /\ outcome.error.name = "TemplateReadError"
                /\ outcome.error.path = templatePath
        /\ locals.stage = "write" =>
                /\ outcome.error.name = "ExportWriteError"
                /\ outcome.error.path \in OutputPaths

CountPgSz(xml) == Cardinality({ i \in DOMAIN xml : IsPgSz(xml[i]) })

\* C8: setPageSize applied to its own result changes nothing; in particular the
\* number of <w:pgSz> elements does not grow.
C8_PatchIdempotent ==
    \A i \in 3..Len(patchTrace) :
        /\ patchTrace[i] = patchTrace[2]
        /\ CountPgSz(patchTrace[i]) = CountPgSz(patchTrace[2])

C8_Witness ==
    /\ Len(patchTrace) >= 3
    /\ ~HasPgSz(patchTrace[1])
    /\ CountPgSz(patchTrace[3]) >= 2

\* The fixed table of page sizes, A4 for any other key.
TableWidth(size) ==
    CASE size = "a4" -> 11906 [] size = "a3" -> 16838 [] size = "a5" -> 8391
      [] size = "b4" -> 14170 [] size = "b5" -> 9979 [] size = "letter" -> 12240
      [] size = "legal" -> 12240 [] size = "tabloid" -> 15840 [] OTHER -> 11906

TableHeight(size) ==
    CASE size = "a4" -> 16838 [] size = "a3" -> 23811 [] size = "a5" -> 11906
      [] size = "b4" -> 20015 [] size = "b5" -> 14170 [] size = "letter" -> 15840
      [] size = "legal" -> 20160 [] size = "tabloid" -> 24480 [] OTHER -> 16838

RequestedPgSz ==
    IF pageSettings.orientation = "landscape"
    THEN PgSz(TableHeight(pageSettings.size), TableWidth(pageSettings.size), "landscape")
    ELSE PgSz(TableWidth(pageSettings.size), TableHeight(pageSettings.size),
              pageSettings.orientation)

\* C9: after the patch every section boundary carries a <w:pgSz> with the
\* requested width, height and orientation.
C9_EverySectionSized ==
    Len(patchTrace) >= 2 =>
        LET xml == patchTrace[2]
        IN  \A s \in BoundaryStarts(xml) :
                \E i \in s..Len(xml) :
                    /\ xml[i] = RequestedPgSz
                    /\ \A j \in s..i : xml[j] # SectPrClose

Elements(xml, open, close) ==
    LET opens == Positions(xml, {open})
        closeAfter(p) == Min({ q \in p..Len(xml) : xml[q] = close })
    IN  [n \in 1..Cardinality(opens) |->
            SubSeq(xml, Nth(opens, n), closeAfter(Nth(opens, n)))]

Inner(element) == SubSeq(element, 2, Len(element) - 1)

Has(xml, tag) == \E n \in DOMAIN xml : xml[n] = T(tag)

ParagraphsOf(xml) == Elements(xml, T("<w:p>"), T("</w:p>"))

\* The text of a piece of xml: what stands in its <w:t> elements.
TextOf(xml) ==
    LET texts == Elements(xml, T("<w:t xml:space=\"preserve\">"), T("</w:t>"))
    IN  Flatten([n \in DOMAIN texts |-> Inner(texts[n])])

\* The runs of a piece of xml: text and character formatting.
RunsOf(xml) ==
    LET runs == Elements(xml, T("<w:r>"), T("</w:r>"))
    IN  [n \in DOMAIN runs |->
            [text |-> TextOf(runs[n]),
             bold |-> Has(runs[n], "<w:b/>"),
             italic |-> Has(runs[n], "<w:i/>"),
             code |-> Has(runs[n], "<w:rFonts w:ascii=\"Consolas\" w:hAnsi=\"Consolas\"/>")]]

\* A text with each of the five special characters written as its entity.
Entity(a) ==
    CASE a = T("&") -> Str(<<"&", "a", "m", "p", ";">>)
      [] a = T("<") -> Str(<<"&", "l", "t", ";">>)
      [] a = T(">") -> Str(<<"&", "g", "t", ";">>)
      [] a = T("\"") -> Str(<<"&", "q", "u", "o", "t", ";">>)
      [] a = T("'") -> Str(<<"&", "a", "p", "o", "s", ";">>)
      [] OTHER -> <<a>>

Escaped(text) == Flatten([n \in DOMAIN text |-> Entity(text[n])])

\* The source line with index j (from 0) of the text being converted.
Line(j) == scan.lines[j + 1]

LinesOf(iteration) == [n \in 1..(iteration.last - iteration.first + 1) |-> Line(iteration.first + n - 1)]

\* The iterations of the loop that took the branch of a rule.
Taken(rule) == { n \in DOMAIN consumed : consumed[n].rule = rule }

\* C11: a line that meets both the table test and the ASCII-art test, and is not
\* inside a code block, is taken by the table branch wherever it stands, also
\* right after an ASCII-art line.
C11_TableBeforeAsciiArt ==
    \A n \in DOMAIN consumed :
        \A j \in consumed[n].first..consumed[n].last :
            (IsTableStart(Line(j)) /\ isAsciiArt(Line(j))
                /\ consumed[n].rule \notin {"fence", "code"})
            => consumed[n].rule = "table"

\* The closing fences: the fence iterations that find a code block open, each
\* with the code iterations since the opening fence.
ClosingFences ==
    { n \in Taken("fence") : Cardinality({ m \in Taken("fence") : m < n }) % 2 = 1 }

OpeningFenceOf(n) == Max({ m \in Taken("fence") : m < n })

\* C12: a fenced code block with n lines between its fences (n >= 0) is emitted
\* as exactly n paragraphs, the i-th holding the escaped text of the i-th line,
\* with space before the first paragraph only and after the last one only.
C12_CodeLinesPreserved ==
    \A close \in ClosingFences :
        LET open == OpeningFenceOf(close)
            count == close - open - 1
            paragraphs == ParagraphsOf(consumed[close].xml)
        IN  /\ Len(paragraphs) = count
            /\ \A n \in 1..count :
                /\ consumed[open + n].rule = "code"
                /\ TextOf(paragraphs[n]) = Escaped(Line(consumed[open + n].first))
                /\ (n = 1) = \E after \in {"0", "120"} :
                        Has(paragraphs[n], "<w:spacing w:before=\"120\" w:after=\"" \o after
                                \o "\" w:line=\"240\" w:lineRule=\"exact\"/>")
                /\ (n = count) = \E before \in {"0", "120"} :
                        Has(paragraphs[n], "<w:spacing w:before=\"" \o before
                                \o "\" w:after=\"120\" w:line=\"240\" w:lineRule=\"exact\"/>")

\* C13: when the text ends inside a code block whose fence was never closed, the
\* lines after that fence are still emitted: the text returned ends with one
\* paragraph for each of them.
C13_UnclosedFenceEmitted ==
    (scan.pc = "returned" /\ scan.inCodeBlock) =>
        LET paragraphs == ParagraphsOf(scan.xml)
            count == Len(scan.codeLines)
        IN  /\ Len(paragraphs) >= count
            /\ \A n \in 1..count :
                    TextOf(paragraphs[Len(paragraphs) - count + n]) = Escaped(scan.codeLines[n])

\* The lines an iteration took are what its branch takes: a table block is a
\* line that starts a table and then every following line with a '|', an
\* ASCII-art block a line of ASCII art and then every following line that is
\* ASCII art or blank, and every other branch takes its one line.
TakesItsLines(iteration) ==
    LET after == iteration.last + 1
    IN  CASE iteration.rule = "table" ->
                /\ IsTableStart(Line(iteration.first))
                /\ \A j \in iteration.first..iteration.last : Includes(Line(j), "|")
                /\ after < Len(scan.lines) => ~Includes(Line(after), "|")
          [] iteration.rule = "asciiArt" ->
                /\ isAsciiArt(Line(iteration.first))
                /\ \A j \in iteration.first..iteration.last :
                        isAsciiArt(Line(j)) \/ IsBlank(Line(j))
                /\ after < Len(scan.lines) => ~(isAsciiArt(Line(after)) \/ IsBlank(Line(after)))
          [] OTHER -> iteration.first = iteration.last

\* C14: the loop goes through the lines once, from the first to the last: each
\* iteration takes the lines from where the one before stopped, at least one and
\* exactly those its branch takes, so that no line is taken twice and none is
\* passed over; the cursor stands right after the lines taken so far and at the
\* end of the text on return; xml is the texts of the iterations in their order.
C14_SingleScan ==
    /\ \A n \in DOMAIN consumed :
            /\ consumed[n].first = IF n = 1 THEN 0 ELSE consumed[n - 1].last + 1
            /\ consumed[n].first <= consumed[n].last
            /\ consumed[n].last < Len(scan.lines)
            /\ TakesItsLines(consumed[n])
    /\ scan.i = IF consumed = <<>> THEN 0 ELSE consumed[Len(consumed)].last + 1
    /\ scan.pc = "returned" => scan.i = Len(scan.lines)
    /\ scan.xml = Flatten([n \in DOMAIN consumed |-> consumed[n].xml])

C14_Witness ==
    /\ scan.pc = "returned"
    /\ Len(consumed) = 2
    /\ consumed[1].rule = "table"
    /\ consumed[1].last = 1
    /\ consumed[2].rule = "heading"
    /\ consumed[2].xml # <<>>

\* Reading a table back: its rows, and the texts of the cells of a row.
TableRowsOf(xml) == Elements(xml, T("<w:tr>"), T("</w:tr>"))

CellTextsOf(row) ==
    LET cells == Elements(row, T("<w:tc>"), T("</w:tc>"))
    IN  [n \in DOMAIN cells |-> TextOf(cells[n])]

\* The <w:gridCol> entries of a table: what stands in its <w:tblGrid>.
GridColumnsOf(xml) == Inner(Elements(xml, T("<w:tblGrid>"), T("</w:tblGrid>"))[1])

\* A separator row of a Markdown table: between its pipes there are only cells
\* of dashes and colons, at least one.
IsDashCell(text) == text # <<>> /\ \A n \in DOMAIN text : text[n] \in {T("-"), T(":")}

IsSeparatorRow(line) ==
    /\ TableCells(line) # <<>>
    /\ \A n \in DOMAIN TableCells(line) : IsDashCell(TableCells(line)[n])

\* A table as the editor and its users write it: header row, separator row
\* with as many columns, data rows.
IsProperTable(lines) ==
    /\ Len(lines) >= 2
    /\ ~IsSeparatorRow(lines[1])
    /\ IsSeparatorRow(lines[2])
    /\ Len(TableCells(lines[2])) = Len(TableCells(lines[1]))
    /\ \A n \in 3..Len(lines) : ~IsSeparatorRow(lines[n]) /\ TableCells(lines[n]) # <<>>

\* C15: a table made of a header row, a separator row of dashes and colons with
\* as many columns (one, two or more) and data rows is emitted with one <w:tr>
\* for each header or data row and none whose cells come from the separator.
C15_SeparatorNotEmitted ==
    \A n \in Taken("table") :
        IsProperTable(LinesOf(consumed[n])) =>
            LET rows == TableRowsOf(consumed[n].xml)
            IN  /\ Len(rows) = Len(LinesOf(consumed[n])) - 1
                /\ \A r \in DOMAIN rows :
                     \A c \in DOMAIN CellTextsOf(rows[r]) : ~IsDashCell(CellTextsOf(rows[r])[c])

\* The lines of a table block that are rows, and the widest of them.
RowLinesOf(lines) == SelectSeq(lines, LAMBDA l : ~IsSeparatorRow(l) /\ TableCells(l) # <<>>)

MaxCellCount(lines) == Max({ Len(TableCells(RowLinesOf(lines)[n])) : n \in DOMAIN RowLinesOf(lines) })

\* The cells of an emitted row are the cells of a line of the block, in their
\* order, then empty cells only.
IsPaddedLine(texts, lines) ==
    \E n \in DOMAIN lines :
        /\ Len(TableCells(lines[n])) <= Len(texts)
        /\ \A c \in DOMAIN texts :
                texts[c] = IF c <= Len(TableCells(lines[n]))
                           THEN Escaped(TableCells(lines[n])[c]) ELSE <<>>

Plain(text) == [text |-> Escaped(text), bold |-> FALSE, italic |-> FALSE, code |-> FALSE]

Formatted(text, bold, italic, code) ==
    [text |-> Escaped(text), bold |-> bold, italic |-> italic, code |-> code]

\* The places (from 0) at which a formatted span can start in a text: one of
\* the four delimiters, at least one character, the same delimiter again.
SpanStarts(text) ==
    { p \in 0..(Len(text) - 1) :
        \E d \in {<<"*", "*", "*">>, <<"*", "*">>, <<"*">>, <<"GRAVE">>} :
            /\ StartsWithAt(text, p + 1, Str(d))
            /\ \E q \in (p + Len(d) + 2)..Len(text) : StartsWithAt(text, q, Str(d)) }

\* part is whole with some characters left out.
\* The position of whole that follows part[lo..hi] when each of its characters
\* is taken at its first occurrence from position from on; Len(whole) + 2 when
\* one of them does not occur.
RECURSIVE MatchedUpTo(_, _, _, _, _)

\* The second half, once the first half has been matched up to reached.
MatchedRest(part, whole, lo, hi, reached) ==
    IF reached > Len(whole) + 1 THEN reached
    ELSE MatchedUpTo(part, whole, lo, hi, reached)

MatchedUpTo(part, whole, lo, hi, from) ==
    IF lo = hi
    THEN LET found == { j \in from..Len(whole) : whole[j] = part[lo] }
         IN  IF found = {} THEN Len(whole) + 2 ELSE Min(found) + 1
    ELSE MatchedRest(part, whole, (lo + hi) \div 2 + 1, hi,
                     MatchedUpTo(part, whole, lo, (lo + hi) \div 2, from))

IsSubsequence(part, whole) ==
    part = <<>> \/ MatchedUpTo(part, whole, 1, Len(part), 1) <= Len(whole) + 1

\* C17: the runs of a line follow the source from left to right: their texts,
\* one after the other, are the escaped source with delimiters left out; the
\* first run is the plain text before the smallest offset at which any of the
\* four patterns matches, or starts at that offset when it is 0; and a line
\* made of a bold, an italic and a code span with plain text in between (as
\* '**a** and *b* and `c`') gives the runs bold, plain, italic, plain, code with
\* the delimiters removed and the plain text unchanged.
C17_InlineOrder ==
    \A n \in Taken("paragraph") :
        LET text == Line(consumed[n].first)
            runs == RunsOf(consumed[n].xml)
        IN  /\ IsSubsequence(Flatten([r \in DOMAIN runs |-> runs[r].text]), Escaped(text))
            /\ SpanStarts(text) = {} => runs = <<Plain(text)>>
            /\ SpanStarts(text) # {} =>
                    /\ Min(SpanStarts(text)) > 0 =>
                            runs[1] = Plain(SubSeq(text, 1, Min(SpanStarts(text))))
                    /\ Min(SpanStarts(text)) = 0 =>
                            runs[1].bold \/ runs[1].italic \/ runs[1].code
            /\ \A b \in SpanTexts, g1 \in Gaps, i \in SpanTexts, g2 \in Gaps, c \in SpanTexts :
                    text = InlineLine(b, g1, i, g2, c) =>
                        runs = << Formatted(b, TRUE, FALSE, FALSE), Plain(g1),
                                  Formatted(i, FALSE, TRUE, FALSE), Plain(g2),
                                  Formatted(c, FALSE, FALSE, TRUE) >>

C17_Witness ==
    /\ scan.pc = "returned"
    /\ scan.lines = << Str(<<"*", "*", "a", "*", "*", " ", "a", "n", "d", " ", "*", "x", "y", "*",
                             " ", "a", "n", "d", " ", "GRAVE", "a", "GRAVE">>) >>
    /\ Len(RunsOf(scan.xml)) = 5
    /\ RunsOf(scan.xml)[3] = Formatted(Str(<<"x", "y">>), FALSE, TRUE, FALSE)

\* The number of '#' characters at the start of a text.
RECURSIVE LeadingHashes(_)
LeadingHashes(text) ==
    IF text # <<>> /\ Head(text) = T("#") THEN 1 + LeadingHashes(Tail(text)) ELSE 0

HeadingStyle(level) == "<w:pStyle w:val=\"Heading" \o ToString(level) \o "\"/>"

\* C18: a line that the heading branch takes (its trimmed form starts with '#',
\* with or without white space before it, with any number of '#') is emitted
\* with style Heading{L}, L being the number of its leading '#' characters and
\* 1 <= L <= 6, and its text holds none of those '#' characters.
C18_HeadingLevel ==
    \A n \in Taken("heading") :
        LET level == LeadingHashes(Trim(Line(consumed[n].first)))
        IN  /\ 1 <= level /\ level <= 6
            /\ Has(consumed[n].xml, HeadingStyle(level))
            /\ TextOf(consumed[n].xml) = <<>> \/ Head(TextOf(consumed[n].xml)) # T("#")

FileLeftBy(run, before) ==
    IF run.stage = "done" THEN Docx(run.modifiedXml)
    ELSE IF run.stage = "write" /\ run.error.code = "ENOSPC" THEN Garbage
    ELSE before

\* What holds of call c when it was not disturbed: its body did what it does
\* alone, its output path holds the file it leaves alone, and its exporter has
\* the fields it had.
Undisturbed(c) ==
    /\ calls[c].run = calls[c].alone
    /\ files[calls[c].outputPath]
            = FileLeftBy(calls[c].alone, initialFiles[calls[c].outputPath])
    /\ calls[c].thisAfter = calls[c].this

\* Call d wrote its output file (line 47 ran to its end or broke off in the write).
Wrote(d) == FileLeftBy(calls[d].run, Absent) # Absent

\* Call c read what call d had written: the only state a body reads besides its
\* arguments and its exporter's fields is the template file (line 25).
ReadsOutputOf(c, d) ==
    /\ d < c
    /\ Wrote(d)
    /\ calls[d].outputPath = calls[c].this.templatePath

\* C20: of two calls of convert in flight together with different output
\* paths, on one exporter or on two, each leaves at its output path the file it
\* leaves when run alone, convert leaves the exporter's fields as they were, and
\* neither call reads what the other wrote.
C20_ConcurrentIndependent ==
    \A c \in DOMAIN calls :
        /\ Undisturbed(c)
        /\ \A d \in DOMAIN calls \ {c} : ~ReadsOutputOf(c, d)

\* C20, amended: the same, for calls neither of which reads a template file
\* that the other has written.
C20_IndependentUnlessTemplateWritten ==
    (\A c, d \in DOMAIN calls : c # d => ~ReadsOutputOf(c, d))
    => \A c \in DOMAIN calls : Undisturbed(c)

\* Two calls on different exporters, both pending together, both exported, and
\* neither read a template the other had written.
C20_Witness ==
    /\ Len(calls) = 2
    /\ calls[1].this # calls[2].this
    /\ calls[1].promise = Pending /\ calls[2].promise = Pending
    /\ calls[1].run.stage = "done" /\ calls[2].run.stage = "done"
    /\ \A c, d \in DOMAIN calls : c # d => ~ReadsOutputOf(c, d)
    /\ files[calls[1].outputPath] # files[calls[2].outputPath]

\* The runs of a paragraph of an ASCII-art block: text and colour.
ColouredRunsOf(paragraph) ==
    LET runs == Elements(paragraph, T("<w:r>"), T("</w:r>"))
    IN  [n \in DOMAIN runs |->
            [text |-> TextOf(runs[n]),
             red |-> Has(runs[n], "<w:color w:val=\"FF0000\"/>"),
             coloured |-> \/ Has(runs[n], "<w:color w:val=\"FF0000\"/>")
                          \/ Has(runs[n], "<w:color w:val=\"FFFFFF\"/>")]]

\* The eight arrows, as the claim lists them.
Arrows == {"U+2193", "U+2192", "U+2190", "U+2191", "U+25BC", "U+25BA", "U+25C4", "U+25B2"}

ArrowsOf(line) == SelectSeq(line, LAMBDA a : a.k \in Arrows)

\* The runs of a paragraph are right for its line.
IsArrowColoured(paragraph, line) ==
    LET runs == ColouredRunsOf(paragraph)
        red == SelectSeq(runs, LAMBDA r : r.red)
    IN  /\ Flatten([n \in DOMAIN runs |-> runs[n].text]) = Escaped(line)
        /\ [n \in DOMAIN red |-> red[n].text] = [n \in DOMAIN ArrowsOf(line) |-> <<ArrowsOf(line)[n]>>]
        /\ \A n \in DOMAIN runs : runs[n].coloured => runs[n].red
        /\ ArrowsOf(line) # <<>> => \A n \in DOMAIN runs : runs[n].text # <<>>

\* C23: an ASCII-art block has one paragraph for each of its lines; in it, one
\* red run of one character for each arrow of the line, in the order of the
\* line, no colour on any other run, no empty run when the line has an arrow,
\* and the texts of the runs together are the escaped line.
C23_ArrowsColoured ==
    \A n \in Taken("asciiArt") :
        /\ Len(ParagraphsOf(consumed[n].xml)) = Len(LinesOf(consumed[n]))
        /\ \A j \in DOMAIN LinesOf(consumed[n]) :
                IsArrowColoured(ParagraphsOf(consumed[n].xml)[j], LinesOf(consumed[n])[j])

\* A line with '<' between two arrows: three runs, the outer ones red.
C23_Witness ==
    /\ scan.pc = "returned"
    /\ scan.lines = <<Str(<<"U+2192", "<", "U+25BC">>)>>
    /\ Taken("asciiArt") = {1}
    /\ Len(ColouredRunsOf(scan.xml)) = 3
    /\ ColouredRunsOf(scan.xml)[1].red /\ ~ColouredRunsOf(scan.xml)[2].red
    /\ ColouredRunsOf(scan.xml)[3].red

\* The line begins with the bold-italic span of text x and holds no '|'.
BeginsBoldItalic(line, x) ==
    /\ StartsWithAt(line, 1, Str(<<"*", "*", "*">>) \o x \o Str(<<"*", "*", "*">>))
    /\ \A n \in DOMAIN line : line[n] # T("|")

\* C24: a line outside a code block that begins with '***x***' and holds no '|'
\* is emitted as a paragraph of style Normal whose first run is x, bold and
\* italic.
C24_BoldItalicParagraph ==
    \A n \in DOMAIN consumed :
        \A x \in {Str(<<"x">>), Str(<<"x", "y">>)} :
            (consumed[n].rule # "code" /\ BeginsBoldItalic(Line(consumed[n].first), x))
            => /\ consumed[n].rule = "paragraph"
               /\ Has(consumed[n].xml, "<w:pStyle w:val=\"Normal\"/>")
               /\ RunsOf(consumed[n].xml)[1] = Formatted(x, TRUE, TRUE, FALSE)

\* The five entities, and a text with each entity read back as its character.
Entities == { Entity(T(c)) : c \in {"&", "<", ">", "\"", "'"} }

\* An entity starts with '&' and holds no other one, so no two of them overlap.
EntityAt(text, n) == { e \in Entities : StartsWithAt(text, n, e) }

InsideEntity(text, n) ==
    \E m \in 1..(n - 1) : \E e \in EntityAt(text, m) : n < m + Len(e)

Unescaped(text) ==
    Flatten([n \in DOMAIN text |->
        IF EntityAt(text, n) # {}
        THEN LET e == CHOOSE e \in EntityAt(text, n) : TRUE
             IN  <<T(CHOOSE c \in {"&", "<", ">", "\"", "'"} : Entity(T(c)) = e)>>
        ELSE IF InsideEntity(text, n) THEN <<>>
        ELSE <<text[n]>>])

\* The whole Markdown text.
SourceText == Join(scan.lines)

\* C25: in the fragment emitted so far, no '<', '>', double quote or apostrophe
\* of the user stands as a character, inside a text element or outside one;
\* every '&' starts one of the five entities; and the text of the fragment is
\* the escaped form of characters of the source, in their order, escaped once.
C25_EscapedOnce ==
    /\ \A n \in DOMAIN scan.xml : scan.xml[n].k \notin {"<", ">", "\"", "'"}
    /\ \A n \in DOMAIN scan.xml :
            scan.xml[n].k = "&" => \E e \in Entities : StartsWithAt(scan.xml, n, e)
    /\ Escaped(Unescaped(TextOf(scan.xml))) = TextOf(scan.xml)
    /\ IsSubsequence(Unescaped(TextOf(scan.xml)), SourceText)

\* A code block whose line is '&lt;' and a heading whose text is '</w:t>'.
C25_Witness ==
    /\ scan.pc = "returned"
    /\ \/ /\ scan.lines = <<Fence, Str(<<"&", "l", "t", ";">>), Fence>>
          /\ TextOf(scan.xml) = Str(<<"&", "a", "m", "p", ";", "l", "t", ";">>)
       \/ /\ scan.lines = <<Str(<<"#", " ", "<", "/", "w", ":", "t", ">">>)>>
          /\ TextOf(scan.xml)
                = Str(<<"&", "l", "t", ";", "/", "w", ":", "t", "&", "g", "t", ";">>)

\* The texts that an iteration of the main loop hands to parseInlineFormatting,
\* and the lines it hands to the arrow loop.
InlineTextsOf(iteration) ==
    LET line == Line(iteration.first)
    IN  CASE iteration.rule = "table" ->
                UNION { { TableCells(l)[c] : c \in DOMAIN TableCells(l) } :
                            l \in { LinesOf(iteration)[n] : n \in DOMAIN LinesOf(iteration) } }
          [] iteration.rule = "heading" -> {StripNumbering(HeadingText(line))}
          [] iteration.rule = "quote" -> {QuoteText(line)}
          [] iteration.rule = "ordered" -> {RemoveMatch(orderedPattern, line)}
          [] iteration.rule = "unordered" -> {RemoveMatch(unorderedPattern, line)}
          [] iteration.rule = "paragraph" -> {line}
          [] OTHER -> {}

ArrowLinesOf(iteration) ==
    IF iteration.rule = "asciiArt"
    THEN { LinesOf(iteration)[n] : n \in DOMAIN LinesOf(iteration) }
    ELSE {}

\* The values remaining and remainingLine can have at the start of an
\* iteration: the non-empty ends of the text.
Ends(texts) == UNION { { SubSeq(t, a, Len(t)) : a \in 1..Len(t) } : t \in texts }

\* The main loop goes on with a larger i.
CursorAdvances == (scan.pc = "loop" /\ scan'.pc = "loop") => scan'.i > scan.i

\* i never passes the number of lines, and there have been at most i iterations.
CursorBounded == scan.pc = "loop" => (Len(consumed) <= scan.i /\ scan.i <= Len(scan.lines))

\* C26: markdownToWordXml ends after at most as many iterations as the text
\* has lines, because i is larger after every iteration of the main loop and
\* never passes the number of lines; every iteration of the loop of
\* parseInlineFormatting leaves remaining shorter; every iteration of the arrow
\* loop leaves remainingLine shorter.
C26_EveryIterationShortens ==
    /\ [][CursorAdvances]_vars
    /\ [](CursorBounded)
    /\ [](\A n \in DOMAIN consumed :
            /\ \A t \in Ends(InlineTextsOf(consumed[n])) :
                    Len(InlineStep(t).remaining) < Len(t)
            /\ \A t \in Ends(ArrowLinesOf(consumed[n])) :
                    Len(ArrowStep(t).remainingLine) < Len(t))

\* C26, amended: the same, but an iteration of the loop of parseInlineFormatting
\* leaves remaining shorter or, when no pattern matches, leaves the loop by its
\* break.
C26_Terminates ==
    /\ [][CursorAdvances]_vars
    /\ [](CursorBounded)
    /\ [](\A n \in DOMAIN consumed :
            /\ \A t \in Ends(InlineTextsOf(consumed[n])) :
                    InlineStep(t).break \/ Len(InlineStep(t).remaining) < Len(t)
            /\ \A t \in Ends(ArrowLinesOf(consumed[n])) :
                    Len(ArrowStep(t).remainingLine) < Len(t))

\* The call has returned after a table of two lines that backed up to the
\* ASCII-art line, an ASCII-art block that backed up to the paragraph, and a
\* paragraph with two spans.
C26_Witness ==
    /\ scan.pc = "returned"
    /\ scan.lines = LoopsDoc
    /\ [n \in DOMAIN consumed |-> consumed[n].rule] = <<"table", "asciiArt", "paragraph">>
    /\ [n \in DOMAIN consumed |-> consumed[n].last] = <<1, 2, 3>>
    /\ Len(RunsOf(consumed[3].xml)) = 3

\* The line is count times the character c.
IsRepeat(line, c, count) == Len(line) = count /\ \A k \in DOMAIN line : line[k] = T(c)

\* The iteration took one line and emitted the rule paragraph for it.
EmitsRule(iteration) ==
    /\ iteration.rule = "rule"
    /\ iteration.first = iteration.last
    /\ iteration.xml = createHorizontalRuleXml

\* Line j of the iteration is paragraph j of an ASCII-art block.
EmitsAsciiArtLine(iteration, j) ==
    /\ iteration.rule = "asciiArt"
    /\ Len(ParagraphsOf(iteration.xml)) = Len(LinesOf(iteration))
    /\ Has(ParagraphsOf(iteration.xml)[j],
           "<w:rFonts w:ascii=\"Consolas\" w:hAnsi=\"Consolas\" w:cs=\"Consolas\"/>")
    /\ ~Has(ParagraphsOf(iteration.xml)[j], "<w:pBdr>")
    /\ TextOf(ParagraphsOf(iteration.xml)[j]) = LinesOf(iteration)[j]

\* C27: outside a code block, a line of N times '-' or N times '_' is emitted
\* as a horizontal rule exactly when N is 3 or 4 and as a line of an ASCII-art
\* block when N >= 5; a line of three or more '*' is emitted as a line of an
\* ASCII-art block.
C27_RuleOrAsciiArt ==
    \A n \in DOMAIN consumed :
        consumed[n].rule # "code" =>
            \A j \in DOMAIN LinesOf(consumed[n]) :
                \A c \in RuleChars :
                    LET line == LinesOf(consumed[n])[j]
                    IN  (line # <<>> /\ IsRepeat(line, c, Len(line))) =>
                            /\ c \in {"-", "_"} =>
                                    /\ EmitsRule(consumed[n]) <=> Len(line) \in {3, 4}
                                    /\ Len(line) >= 5 => EmitsAsciiArtLine(consumed[n], j)
                            /\ (c = "*" /\ Len(line) >= 3) => EmitsAsciiArtLine(consumed[n], j)

\* '----' and '___' were emitted as rules, '_____' and '***' between them as
\* one ASCII-art block.
C27_Witness ==
    /\ scan.pc = "returned"
    /\ scan.lines = RulesDoc
    /\ [n \in DOMAIN consumed |-> consumed[n].rule] = <<"rule", "asciiArt", "rule">>
    /\ [n \in DOMAIN consumed |-> consumed[n].last] = <<0, 2, 3>>
    /\ Len(ParagraphsOf(scan.xml)) = 4

\* The cells of a source line that hold something other than white space, in
\* their order, as written between the '|'.
NonEmptyCellsOf(line) ==
    SelectSeq(Split(line, "|"), LAMBDA cell : \E k \in DOMAIN cell : cell[k].k \notin Whitespace)

\* A cell without the characters of inline formatting.
IsPlainCell(cell) == \A k \in DOMAIN cell : cell[k].k \notin {"*", "GRAVE"}

\* The lines of a table block that are not skipped as separators and have a
\* non-empty cell.
CellLinesOf(lines) ==
    SelectSeq(lines, LAMBDA l : ~IsSeparatorLine(l) /\ NonEmptyCellsOf(l) # <<>>)

\* C28: the rows of an emitted table are, in order, the lines of the block
\* that are not separators and have a non-empty cell (a line with no non-empty
\* cell emits no row); the k-th cell of a row is the k-th non-empty cell of its
\* line, and the cells after the last non-empty cell are empty padding.
C28_CellPositions ==
    \A n \in Taken("table") :
        LET lines == CellLinesOf(LinesOf(consumed[n]))
            rows == TableRowsOf(consumed[n].xml)
        IN  /\ Len(rows) = Len(lines)
            /\ \A r \in DOMAIN rows :
                    LET cells == NonEmptyCellsOf(lines[r])
                        texts == CellTextsOf(rows[r])
                    IN  /\ Len(cells) <= Len(texts)
                        /\ \A k \in DOMAIN texts :
                                IF k <= Len(cells)
                                THEN /\ texts[k] # <<>>
                                     /\ IsPlainCell(cells[k]) => texts[k] = Escaped(Trim(cells[k]))
                                ELSE texts[k] = <<>>

\* '| a |  | c |' above '| a | b | c |': the first row is a, c and one
\* padding cell.
C28_Witness ==
    /\ scan.pc = "returned"
    /\ scan.lines = << PipeRow(<<Str(<<"a">>), <<>>, Str(<<"c">>)>>),
                       PipeRow(<<Str(<<"a">>), Str(<<"b">>), Str(<<"c">>)>>) >>
    /\ Taken("table") = {1}
    /\ Len(TableRowsOf(scan.xml)) = 2
    /\ CellTextsOf(TableRowsOf(scan.xml)[1]) = <<Str(<<"a">>), Str(<<"c">>), <<>>>>
    /\ CellTextsOf(TableRowsOf(scan.xml)[2]) = <<Str(<<"a">>), Str(<<"b">>), Str(<<"c">>)>>

\* The latest call was method on a channel outside the list.
BlockedCall(call, method, allowed) == call.method = method /\ call.channel \notin allowed

\* C21: every message forwarded to the main process, by send, invoke or a
\* convenience method, is on a channel of ALLOWED_SEND_CHANNELS, and every
\* listener registered by on or once is on a channel of
\* ALLOWED_RECEIVE_CHANNELS; a send or invoke on a channel outside the list
\* forwards nothing, such an invoke returns null, and an on or once on a
\* channel outside its list registers nothing.
C21_Whitelist ==
    /\ [](/\ \A n \in DOMAIN forwarded : forwarded[n].channel \in ALLOWED_SEND_CHANNELS
          /\ \A l \in listeners : l.channel \in ALLOWED_RECEIVE_CHANNELS
          /\ BlockedCall(result, "invoke", ALLOWED_SEND_CHANNELS) => result.returned = "null")
    /\ [][/\ result'.n = result.n + 1 => Len(forwarded') <= Len(forwarded) + 1
          /\ (/\ result'.n = result.n + 1
              /\ \/ BlockedCall(result', "send", ALLOWED_SEND_CHANNELS)
                 \/ BlockedCall(result', "invoke", ALLOWED_SEND_CHANNELS)
                 \/ BlockedCall(result', "on", ALLOWED_RECEIVE_CHANNELS)
                 \/ BlockedCall(result', "once", ALLOWED_RECEIVE_CHANNELS))
             => (forwarded' = forwarded /\ listeners' = listeners)]_vars

\* A convenience method forwarded its message, then an invoke on a channel that
\* is only allowed for receiving was blocked and returned null.
C21_Witness ==
    /\ result = [n |-> 2, method |-> "invoke", channel |-> "file-opened", returned |-> "null"]
    /\ forwarded = <<Forwarded("send", "video-gif")>>
    /\ listeners = {}

\* C22: when the content of the active tab was A and one input changed it to
\* another text B, an undo right after the input sets the content to A, and a
\* redo right after that undo sets it to B.
C22_UndoRestores ==
    [][/\ (/\ lastOp.op = "input"
           /\ tabs[activeTabId].content # lastOp.before
           /\ lastOp'.op = "undo")
          => tabs'[activeTabId].content = lastOp.before
       /\ (/\ lastOp.op = "undo"
           /\ lastOp.afterInput
           /\ lastOp'.op = "redo")
          => tabs'[activeTabId].content = lastOp.before]_vars

\* The tabs, the editors of the page and the file announced to the main process.
TabState == <<tabs, activeTabId, nextTabId, editors, currentFile, usedIds>>

\* C29: there is always a tab, activeTabId is the id of an open tab, every id
\* used so far is smaller than nextTabId, a tab that appears has an id that was
\* never used, and closeTab with one tab open changes nothing and sends nothing.
C29_TabSet ==
    /\ [](/\ DOMAIN tabs # {}
          /\ activeTabId \in DOMAIN tabs
          /\ DOMAIN tabs \subseteq usedIds
          /\ \A id \in usedIds : id < nextTabId)
    /\ [][/\ \A id \in DOMAIN tabs' \ DOMAIN tabs : id \notin usedIds
          /\ (lastOp'.op = "closeTab" /\ Cardinality(DOMAIN tabs) = 1)
             => (sent' = <<>> /\ UNCHANGED TabState)]_vars

\* Tabs 2 and 3 were created and tabs 1 and 2 closed; the latest closeTab found
\* tab 3 alone and left it.
C29_Witness ==
    /\ lastOp.op = "closeTab"
    /\ DOMAIN tabs = {3}
    /\ activeTabId = 3
    /\ usedIds = {1, 2, 3}
    /\ nextTabId = 4

\* C30: a 'save-current-file' message carries the content of a tab whose
\* filePath is the path of the latest 'set-current-file' message.
C30_SavesCurrentFile ==
    \A n \in DOMAIN sent :
        sent[n].channel = "save-current-file" => sent[n].file = sent[n].announced

====
